---- MODULE Spec2Model ----
(***************************************************************************)
(* react-form-autosave: the save scheduler (createDebouncedFn,             *)
(* createThrottledFn, createSaveController) and the useFormPersist hook    *)
(* that drives it.                                                         *)
(*                                                                         *)
(* Time is a discrete clock `now` (Date.now(), in ms).  A timer is the     *)
(* absolute time at which its setTimeout callback is due, or NoTimer.      *)
(* Timers are never late: a due timer runs before the clock advances and   *)
(* before any further call made at the same instant (as with fake timers). *)
(***************************************************************************)
EXTENDS Integers, Sequences, FiniteSets, TLC

\* ---------------------------------------------------------------- bounds
MaxWait == 3
MaxInterval == 2
MaxArg == 2
MaxCalls == 3
MaxTime == 6

\* Date.now() at construction; far enough from lastCall = 0 that the first
\* throttled call always finds remaining <= 0, as with a real wall clock.
Epoch == MaxInterval + 1

NoTimer == 0 - 1

VARIABLES
    now,      \* Date.now()
    ctl,      \* the object createSaveController returned (both halves)
    trace,    \* observer: the calls made and the callback invocations
    \* ---- useFormPersist: one mounted instance and the storage key it owns
    cfg,          \* the options of this instance (fixed at mount)
    phase,        \* "mounted" | "unmounted"
    enabled,      \* the `enabled` option as of the latest render
    state,        \* useState: state
    isPersisted,  \* useState: isPersisted
    isRestored,   \* useState: isRestored
    lastSaved,    \* useState: lastSaved (Null or a time)
    isPaused,     \* useState: isPaused
    size,         \* useState: size
    history,      \* useState: history
    historyIndex, \* useState: historyIndex
    stateRef,     \* useRef: stateRef.current
    isMountedRef, \* useRef: isMountedRef.current
    queue,        \* state updates dispatched and not yet rendered
    storage,      \* the storage entry under fullKey: <<>> or <<item>>
    cb,           \* what the saveToStorage wrapped by ctl closed over
    retired,      \* replaced controllers whose throttle timer is still armed
    load,         \* loadFromStorage in flight: <<>> or <<raw>> (raw: <<>> or <<item>>)
    obs,          \* observer: what the callers and the storage have seen
    \* ---- HistoryManager: one instance
    hm,           \* this.state: [states, index, maxLength]
    \* ---- SyncManager: one instance, its channel and its listeners
    sm,
    \* ---- a second tab holding the same form
    peer,
    \* ---- the utility functions: the last call and what it returned
    lib

instVars == <<cfg, phase, enabled, state, isPersisted, isRestored, lastSaved,
              isPaused, size, history, historyIndex, stateRef, isMountedRef,
              queue, storage, cb, retired, load, obs>>

hookVars == <<instVars, hm, sm, peer, lib>>

vars == <<now, ctl, trace, hookVars>>

\* ------------------------------------------------ createDebouncedFn
\* An argument list is <<>> for null and <<a>> for the captured arguments.
\* Every operation returns the new closure state and, in `out`, the
\* callback invocations it made synchronously.

Ret(c, out) == [c |-> c, out |-> out]

Run(a, by) == [a |-> a, by |-> by]

debounceCancel(c) ==
    [c EXCEPT !.dTimeout = NoTimer, !.dLastArgs = <<>>]

\* a flush that invokes the callback and leaves the call pending
debounceFlushKeepPending(c) ==
    IF c.dTimeout # NoTimer /\ Len(c.dLastArgs) > 0
    THEN Ret(c, <<Run(c.dLastArgs[1], "flush")>>)
    ELSE Ret(c, <<>>)

debounceFlush(c) ==
    IF c.dTimeout # NoTimer /\ Len(c.dLastArgs) > 0
    THEN Ret(debounceCancel(c), <<Run(c.dLastArgs[1], "flush")>>)
    ELSE Ret(c, <<>>)

debouncePending(c) == c.dTimeout # NoTimer

debouncedKeepTimer(c, a, t) ==
    [c EXCEPT !.dLastArgs = <<a>>,
              !.dTimeout = IF c.dTimeout # NoTimer THEN c.dTimeout ELSE t + c.wait]

debounced(c, a, t) ==
    [c EXCEPT !.dLastArgs = <<a>>, !.dTimeout = t + c.wait]

\* the setTimeout callback of debounced
debounceTimeout(c) ==
    IF Len(c.dLastArgs) > 0
    THEN Ret([c EXCEPT !.dTimeout = NoTimer, !.dLastArgs = <<>>],
             <<Run(c.dLastArgs[1], "debounce")>>)
    ELSE Ret([c EXCEPT !.dTimeout = NoTimer], <<>>)

\* ------------------------------------------------ createThrottledFn
\* a cancel that also forgets when the callback last ran
throttleCancelForgetful(c) ==
    [c EXCEPT !.tTimeout = NoTimer, !.tLastArgs = <<>>, !.tLastCall = 0]

throttleCancel(c) ==
    [c EXCEPT !.tTimeout = NoTimer, !.tLastArgs = <<>>]

throttledFirstArgs(c, a, t) ==
    LET remaining == c.interval - (t - c.tLastCall) IN
    IF remaining <= 0
    THEN Ret([c EXCEPT !.tLastArgs = <<a>>, !.tTimeout = NoTimer, !.tLastCall = t],
             <<Run(a, "leading")>>)
    ELSE IF c.tTimeout = NoTimer
    THEN Ret([c EXCEPT !.tLastArgs = <<a>>, !.tTimeout = t + remaining], <<>>)
    ELSE Ret(c, <<>>)

throttledFullInterval(c, a, t) ==
    LET remaining == c.interval - (t - c.tLastCall) IN
    IF remaining <= 0
    THEN Ret([c EXCEPT !.tLastArgs = <<a>>, !.tTimeout = NoTimer, !.tLastCall = t],
             <<Run(a, "leading")>>)
    ELSE IF c.tTimeout = NoTimer
    THEN Ret([c EXCEPT !.tLastArgs = <<a>>, !.tTimeout = t + c.interval], <<>>)
    ELSE Ret([c EXCEPT !.tLastArgs = <<a>>], <<>>)

throttledStaleLastCall(c, a, t) ==
    LET remaining == c.interval - (t - c.tLastCall) IN
    IF remaining <= 0
    THEN Ret([c EXCEPT !.tLastArgs = <<a>>, !.tTimeout = NoTimer],
             <<Run(a, "leading")>>)
    ELSE IF c.tTimeout = NoTimer
    THEN Ret([c EXCEPT !.tLastArgs = <<a>>, !.tTimeout = t + remaining], <<>>)
    ELSE Ret([c EXCEPT !.tLastArgs = <<a>>], <<>>)

throttled(c, a, t) ==
    LET remaining == c.interval - (t - c.tLastCall) IN
    IF remaining <= 0
    THEN Ret([c EXCEPT !.tLastArgs = <<a>>, !.tTimeout = NoTimer, !.tLastCall = t],
             <<Run(a, "leading")>>)
    ELSE IF c.tTimeout = NoTimer
    THEN Ret([c EXCEPT !.tLastArgs = <<a>>, !.tTimeout = t + remaining], <<>>)
    ELSE Ret([c EXCEPT !.tLastArgs = <<a>>], <<>>)

\* the setTimeout callback of throttled
throttleTimeout(c, t) ==
    IF Len(c.tLastArgs) > 0
    THEN Ret([c EXCEPT !.tLastCall = t, !.tTimeout = NoTimer, !.tLastArgs = <<>>],
             <<Run(c.tLastArgs[1], "trailing")>>)
    ELSE Ret([c EXCEPT !.tLastCall = t, !.tTimeout = NoTimer], <<>>)

\* ------------------------------------------------ createSaveController
\* interval = 0 stands for an absent (falsy) throttleInterval.
createSaveController(debounceWait, throttleInterval) ==
    [wait |-> debounceWait, interval |-> throttleInterval,
     dTimeout |-> NoTimer, dLastArgs |-> <<>>,
     tLastCall |-> 0, tTimeout |-> NoTimer, tLastArgs |-> <<>>]

save(c, a, t) ==
    IF c.interval = 0
    THEN Ret(debounced(c, a, t), <<>>)
    ELSE throttled(debounced(c, a, t), a, t)

cancel(c) ==
    IF c.interval = 0 THEN debounceCancel(c)
    ELSE throttleCancel(debounceCancel(c))

flush(c) == debounceFlush(c)

pending(c) == debouncePending(c)

DebounceDue(c, t) == c.dTimeout # NoTimer /\ c.dTimeout <= t

ThrottleDue(c, t) == c.tTimeout # NoTimer /\ c.tTimeout <= t

TimerDue(c, t) == DebounceDue(c, t) \/ ThrottleDue(c, t)

\* ------------------------------------------------ observer
Call(a) == [ev |-> "call", t |-> now, a |-> a, by |-> "user"]

Mark(ev) == [ev |-> ev, t |-> now, a |-> 0, by |-> "user"]

RECURSIVE Execs(_)
Execs(out) ==
    IF Len(out) = 0 THEN <<>>
    ELSE <<[ev |-> "exec", t |-> now, a |-> out[1].a, by |-> out[1].by]>>
         \o Execs(Tail(out))

Count(ev) == Cardinality({i \in 1..Len(trace) : trace[i].ev = ev})

UserOps == Len(trace) - Count("exec")

CanCall == UserOps < MaxCalls /\ ~TimerDue(ctl, now)

\* ------------------------------------------------ scheduler actions
Tick ==
    /\ now < Epoch + MaxTime
    /\ ~TimerDue(ctl, now)
    /\ now' = now + 1
    /\ UNCHANGED <<ctl, trace, hookVars>>

DebounceFire ==
    /\ DebounceDue(ctl, now)
    /\ LET r == debounceTimeout(ctl) IN
         /\ ctl' = r.c
         /\ trace' = trace \o Execs(r.out)
    /\ UNCHANGED <<now, hookVars>>

ThrottleFire ==
    /\ ThrottleDue(ctl, now)
    /\ LET r == throttleTimeout(ctl, now) IN
         /\ ctl' = r.c
         /\ trace' = trace \o Execs(r.out)
    /\ UNCHANGED <<now, hookVars>>

\* createDebouncedFn on its own
DebouncedCall ==
    /\ CanCall
    /\ \E a \in 1..MaxArg :
         /\ ctl' = debounced(ctl, a, now)
         /\ trace' = Append(trace, Call(a))
    /\ UNCHANGED <<now, hookVars>>

DebounceCancelCall ==
    /\ CanCall
    /\ ctl' = debounceCancel(ctl)
    /\ trace' = Append(trace, Mark("cancel"))
    /\ UNCHANGED <<now, hookVars>>

DebounceFlushCall ==
    /\ CanCall
    /\ LET r == debounceFlush(ctl) IN
         /\ ctl' = r.c
         /\ trace' = Append(trace, Mark("flush")) \o Execs(r.out)
    /\ UNCHANGED <<now, hookVars>>

\* createThrottledFn on its own
ThrottledCall ==
    /\ CanCall
    /\ \E a \in 1..MaxArg :
         LET r == throttled(ctl, a, now) IN
         /\ ctl' = r.c
         /\ trace' = Append(trace, Call(a)) \o Execs(r.out)
    /\ UNCHANGED <<now, hookVars>>

ThrottleCancelCall ==
    /\ CanCall
    /\ ctl' = throttleCancel(ctl)
    /\ trace' = Append(trace, Mark("cancel"))
    /\ UNCHANGED <<now, hookVars>>

\* the controller
SaveCall ==
    /\ CanCall
    /\ \E a \in 1..MaxArg :
         LET r == save(ctl, a, now) IN
         /\ ctl' = r.c
         /\ trace' = Append(trace, Call(a)) \o Execs(r.out)
    /\ UNCHANGED <<now, hookVars>>

CancelCall ==
    /\ CanCall
    /\ ctl' = cancel(ctl)
    /\ trace' = Append(trace, Mark("cancel"))
    /\ UNCHANGED <<now, hookVars>>

FlushCall ==
    /\ CanCall
    /\ LET r == flush(ctl) IN
         /\ ctl' = r.c
         /\ trace' = Append(trace, Mark("flush")) \o Execs(r.out)
    /\ UNCHANGED <<now, hookVars>>

\* no hook is mounted in the scheduler specifications
NoHook ==
    /\ cfg = <<>> /\ phase = "none" /\ enabled = FALSE /\ state = <<>>
    /\ isPersisted = FALSE /\ isRestored = FALSE /\ lastSaved = NoTimer
    /\ isPaused = FALSE /\ size = 0 /\ history = <<>> /\ historyIndex = 0
    /\ stateRef = <<>> /\ isMountedRef = FALSE /\ queue = <<>> /\ storage = <<>>
    /\ cb = <<>> /\ retired = <<>> /\ load = <<>> /\ obs = <<>>

\* no HistoryManager is constructed
NoHistory == hm = <<>>

\* no SyncManager is constructed
NoSync == sm = <<>>

\* no second tab is open
NoPeer == peer = <<>>

\* no utility function has been called
NoLib == lib = <<>>

InitSched(waits, intervals) ==
    /\ now = Epoch
    /\ trace = <<>>
    /\ NoHook
    /\ NoHistory
    /\ NoSync
    /\ NoPeer
    /\ NoLib
    /\ \E w \in waits : \E i \in intervals : ctl = createSaveController(w, i)

InitDebounce == InitSched(1..MaxWait, {0})

NextDebounce ==
    \/ DebouncedCall
    \/ DebounceCancelCall
    \/ DebounceFlushCall
    \/ DebounceFire
    \/ Tick

SpecDebounce == InitDebounce /\ [][NextDebounce]_vars

InitThrottle == InitSched({1}, 1..MaxInterval)

NextThrottle ==
    \/ ThrottledCall
    \/ ThrottleCancelCall
    \/ ThrottleFire
    \/ Tick

SpecThrottle == InitThrottle /\ [][NextThrottle]_vars

InitController == InitSched(1..MaxWait, 0..MaxInterval)

NextController ==
    \/ SaveCall
    \/ CancelCall
    \/ FlushCall
    \/ DebounceFire
    \/ ThrottleFire
    \/ Tick

SpecController == InitController /\ [][NextController]_vars

\* ================================================================ hook
\* ------------------------------------------------ hook bounds and inputs
HookWait == 2
HookInterval == 3
MaxHistory == 2
MaxOps == 3
HookMaxTime == 3

\* the clock reading at mount: late enough for a first throttled call to
\* find the interval elapsed, as with Date.now()
HookEpoch == HookInterval + 1

Null == NoTimer

\* Form data is a plain object with string values: a function from keys
\* to strings.
initialState == [name |-> "", email |-> "e", pw |-> ""]

\* the values the caller passes to the setter: each call passes a value
\* different from the one before
Inputs == {[name |-> "a", email |-> "e", pw |-> "s"],
           [name |-> "b", email |-> "e", pw |-> "s"]}

FirstInput == [name |-> "a", email |-> "e", pw |-> "s"]

\* the data of an envelope left in storage by an earlier session
SeedData == [name |-> "J", old |-> "x"]

Restrict(f, K) == [k \in K |-> f[k]]

\* ------------------------------------------------ transform.ts
filterExcludedFields(data, exclude) ==
    IF Cardinality(exclude) = 0 THEN data
    ELSE Restrict(data, DOMAIN data \ exclude)

\* expiration = 0 stands for an absent expiration; minutes are scaled to
\* clock units one to one
wrapWithMetadata(data, version, expiration) ==
    [data |-> data, timestamp |-> now, version |-> version,
     expiresAt |-> IF expiration > 0 THEN now + expiration ELSE Null]

\* A stored string is modelled by what parsing it yields: kind "json" with
\* the parsed value `env`, or kind "garbage" (not parseable).  A parsed value
\* that is no envelope has shape = FALSE.
serialize(wrapped) == [kind |-> "json", shape |-> TRUE, env |-> wrapped]

deserialize(raw) == IF raw.kind = "json" THEN <<raw>> ELSE <<>>

getStringByteSize(item) == 40 + 10 * Cardinality(DOMAIN item.env.data)

\* ------------------------------------------------ validate.ts
isValidPersistedData(parsed) == parsed.shape

\* an expiry check that never finds anything expired
isExpiredNever(env) == FALSE

isExpired(env) == IF env.expiresAt = Null THEN FALSE ELSE now > env.expiresAt

needsMigration(storedVersion, currentVersion) == storedVersion < currentVersion

\* the caller's migrate function: renames `old` to `email`
migrateFn(data) ==
    [k \in (DOMAIN data \ {"old"}) \cup {"email"} |->
        IF k = "email" /\ "old" \in DOMAIN data THEN data["old"]
        ELSE IF k \in DOMAIN data THEN data[k] ELSE ""]

\* a migrateData that hands the stored data on when migrateFn throws
migrateDataUnguarded(data, storedVersion, currentVersion, migrate) ==
    IF ~needsMigration(storedVersion, currentVersion) THEN <<data>>
    ELSE IF migrate = "fn" THEN <<migrateFn(data)>>
    ELSE <<data>>

\* <<>> stands for the null returned when migrateFn throws
migrateData(data, storedVersion, currentVersion, migrate) ==
    IF ~needsMigration(storedVersion, currentVersion) THEN <<data>>
    ELSE IF migrate = "none" THEN <<data>>
    ELSE IF migrate = "throws" THEN <<>>
    ELSE <<migrateFn(data)>>

\* the caller's validate function, when given: the name must not be empty
\* a validation that lets everything through
validateDataLenient(data, validate) == TRUE

validateData(data, validate) ==
    IF validate = "none" THEN TRUE
    ELSE IF validate = "throws" THEN FALSE
    ELSE "name" \in DOMAIN data /\ data["name"] # ""

\* ---- detectErrorType; a message is its sequence of words
QuotaError ==
    [isError |-> TRUE, name |-> "QuotaExceededError",
     message |-> <<"The", "quota", "has", "been", "exceeded">>]

FullError ==
    [isError |-> TRUE, name |-> "Error", message |-> <<"Storage", "full">>]

DeniedError ==
    [isError |-> TRUE, name |-> "SecurityError", message |-> <<"denied">>]

toLowerCase(word) ==
    CASE word = "QuotaExceededError" -> "quotaexceedederror"
      [] word = "SecurityError" -> "securityerror"
      [] word = "Error" -> "error"
      [] word = "The" -> "the"
      [] word = "Storage" -> "storage"
      [] OTHER -> word

includes(message, phrase) ==
    \E i \in 1..Len(message) :
        /\ i + Len(phrase) - 1 <= Len(message)
        /\ \A j \in 1..Len(phrase) : toLowerCase(message[i + j - 1]) = phrase[j]

detectErrorType(error) ==
    IF ~error.isError THEN "UNKNOWN"
    ELSE IF \/ toLowerCase(error.name) = "quotaexceedederror"
            \/ includes(error.message, <<"quota">>)
            \/ includes(error.message, <<"storage", "full">>)
            \/ includes(error.message, <<"exceeded", "the", "quota">>)
    THEN "QUOTA_EXCEEDED"
    ELSE IF \/ toLowerCase(error.name) = "syntaxerror"
            \/ includes(error.message, <<"json">>)
            \/ includes(error.message, <<"parse">>)
            \/ includes(error.message, <<"unexpected", "token">>)
    THEN "PARSE_ERROR"
    ELSE "UNKNOWN"

\* ------------------------------------------------ merge strategies
\* a shallow merge in which the initial state overrides the stored data
shallowMergeInitialWins(stored, initial) ==
    [k \in DOMAIN initial \cup DOMAIN stored |->
        IF k \in DOMAIN initial THEN initial[k] ELSE stored[k]]

shallowMerge(stored, initial) ==
    [k \in DOMAIN initial \cup DOMAIN stored |->
        IF k \in DOMAIN stored THEN stored[k] ELSE initial[k]]

dangerousKeys == {"__proto__", "constructor", "prototype"}

\* on flat data no value is a plain object, so the recursion never starts
deepMerge(stored, initial) ==
    [k \in DOMAIN initial \cup (DOMAIN stored \ dangerousKeys) |->
        IF k \in DOMAIN stored \ dangerousKeys THEN stored[k] ELSE initial[k]]

preferStoredMerge(stored, initial) ==
    [k \in DOMAIN initial \cup DOMAIN stored |->
        IF k \in DOMAIN stored THEN stored[k] ELSE initial[k]]

\* initialValue is undefined (empty) for a key initial does not have
isEmpty(initial, k) == k \notin DOMAIN initial \/ initial[k] = ""

preferInitialMerge(stored, initial) ==
    [k \in DOMAIN initial \cup {j \in DOMAIN stored : isEmpty(initial, j)} |->
        IF k \in DOMAIN stored /\ isEmpty(initial, k) THEN stored[k] ELSE initial[k]]

mergeFn(strategy, stored, initial) ==
    CASE strategy = "deep" -> deepMerge(stored, initial)
      [] strategy = "prefer-stored" -> preferStoredMerge(stored, initial)
      [] strategy = "prefer-initial" -> preferInitialMerge(stored, initial)
      [] OTHER -> shallowMerge(stored, initial)

\* ------------------------------------------------ the hook's closures
\* The caller's beforePersist, when given: masks the password and adds a tag.
beforePersist(data) ==
    [k \in DOMAIN data \cup {"pw", "tag"} |->
        IF k = "pw" THEN "*" ELSE IF k = "tag" THEN "t" ELSE data[k]]

Upd(op, v) == [op |-> op, v |-> v]

\* The operations below act on a record w holding the hook's variables (Cur)
\* and return the record after the call.
Cur ==
    [ctl |-> ctl, phase |-> phase, enabled |-> enabled, state |-> state,
     isPersisted |-> isPersisted, isRestored |-> isRestored,
     lastSaved |-> lastSaved, isPaused |-> isPaused, size |-> size,
     history |-> history, historyIndex |-> historyIndex,
     stateRef |-> stateRef, isMountedRef |-> isMountedRef, queue |-> queue,
     storage |-> storage, cb |-> cb, retired |-> retired, load |-> load,
     obs |-> obs]

\* setX(...) of a useState: queued until the next render; dropped once the
\* component is unmounted
Dispatch(w, ups) ==
    IF w.phase = "mounted" THEN [w EXCEPT !.queue = @ \o ups] ELSE w

\* saveToStorage without the exclusion step
PersistedNoFilter(dataToSave) ==
    IF cfg.beforePersist THEN beforePersist(dataToSave) ELSE dataToSave

\* what saveToStorage stores for dataToSave
Persisted(dataToSave) ==
    LET processed == IF cfg.beforePersist THEN beforePersist(dataToSave)
                     ELSE dataToSave
    IN IF Cardinality(cfg.exclude) > 0
       THEN filterExcludedFields(processed, cfg.exclude)
       ELSE processed

\* an error handler that also puts the initial state back
handleErrorRollback(w, type) ==
    Dispatch([w EXCEPT !.obs.errors = Append(@, type),
                       !.obs.storageFull =
                           IF type \in {"QUOTA_EXCEEDED", "STORAGE_FULL"}
                           THEN Append(@, type) ELSE @],
             <<Upd("state", initialState)>>)

\* onError and onStorageFull record the error types they were called with
handleError(w, type) ==
    [w EXCEPT !.obs.errors = Append(@, type),
              !.obs.storageFull = IF type \in {"QUOTA_EXCEEDED", "STORAGE_FULL"}
                                  THEN Append(@, type) ELSE @]

\* saveToStorage as created by a render that saw cl.enabled and cl.isPaused
saveToStorage(w, cl, dataToSave) ==
    IF ~cl.enabled \/ cl.isPaused THEN w
    ELSE
    LET processedData == Persisted(dataToSave) IN
    IF ~validateData(processedData, cfg.validate) THEN w
    ELSE
    LET wrapped == wrapWithMetadata(processedData, cfg.version, cfg.expiration)
        serialized == serialize(wrapped)
        dataSize == getStringByteSize(serialized)
        w1 == [w EXCEPT
                 !.storage = <<serialized>>,
                 !.obs.lastWrite = <<[arg |-> dataToSave, data |-> processedData]>>,
                 !.obs.wrotePaused = @ \/ w.obs.pauseCalled,
                 !.obs.wroteDisabled = @ \/ ~w.enabled]
    IN IF Len(cfg.setItem) > 0
       THEN handleError(w, detectErrorType(cfg.setItem[1]))
       ELSE Dispatch(w1, <<Upd("isPersisted", TRUE), Upd("lastSaved", now),
                           Upd("size", dataSize)>>)

\* the callback invocations `out` of a controller run saveToStorage
RECURSIVE RunOut(_, _, _)
RunOut(w, cl, out) ==
    IF Len(out) = 0 THEN w
    ELSE RunOut(saveToStorage(w, cl, out[1].a), cl, Tail(out))

\* saveController.save(v) through the closures of the latest render
ctlSave(w, v) ==
    LET r == save(w.ctl, v, now) IN RunOut([w EXCEPT !.ctl = r.c], w.cb, r.out)

ctlFlush(w) ==
    LET r == flush(w.ctl) IN RunOut([w EXCEPT !.ctl = r.c], w.cb, r.out)

\* history[i] of the source (0-based); an index out of range reads undefined,
\* modelled as the empty object
Undefined == <<>>

At(h, i) == IF i + 1 \in 1..Len(h) THEN h[i + 1] ELSE Undefined

Min(a, b) == IF a < b THEN a ELSE b

\* the updater function setState hands to setStateInternal, as created by
\* the latest render (it closes over that render's historyIndex and
\* saveController)
updater(w, v) ==
    LET w1 == IF cfg.history
              THEN Dispatch(w, <<Upd("historyPush", [i |-> historyIndex, s |-> v]),
                                 Upd("historyIndexInc", 0)>>)
              ELSE w
    IN [ctlSave(w1, v) EXCEPT !.state = v]

historyPush(prev, i, newState) ==
    LET newHistory == SubSeq(prev, 1, Min(i + 1, Len(prev))) \o <<newState>>
    IN IF Len(newHistory) > MaxHistory THEN Tail(newHistory) ELSE newHistory

\* one queued update applied by a render
Apply(w, e) ==
    CASE e.op = "setter" -> updater(w, e.v)
      [] e.op = "state" -> [w EXCEPT !.state = e.v]
      [] e.op = "isPersisted" -> [w EXCEPT !.isPersisted = e.v]
      [] e.op = "isRestored" -> [w EXCEPT !.isRestored = e.v]
      [] e.op = "lastSaved" -> [w EXCEPT !.lastSaved = e.v]
      [] e.op = "isPaused" -> [w EXCEPT !.isPaused = e.v]
      [] e.op = "size" -> [w EXCEPT !.size = e.v]
      [] e.op = "history" -> [w EXCEPT !.history = e.v]
      [] e.op = "historyIndex" -> [w EXCEPT !.historyIndex = e.v]
      [] e.op = "historyPush" ->
            [w EXCEPT !.history = historyPush(w.history, e.v.i, e.v.s)]
      [] e.op = "historyIndexInc" ->
            [w EXCEPT !.historyIndex = Min(w.historyIndex + 1, MaxHistory - 1)]

\* a render works off the whole queue, updates dispatched meanwhile included
RECURSIVE Reduce(_)
Reduce(w) ==
    IF Len(w.queue) = 0 THEN w
    ELSE CHOOSE r \in {Reduce(applied) :
                         applied \in {Apply([w EXCEPT !.queue = Tail(@)],
                                            Head(w.queue))}} : TRUE

\* the commit of a render that produced a new saveToStorage: the cleanup of
\* the flush effect runs on the replaced controller, whose throttle timer
\* (if armed) stays armed; a new controller is created
replaceController(w, newCb) ==
    LET wf == ctlFlush(w) IN
    [wf EXCEPT !.retired = IF wf.ctl.tTimeout # NoTimer
                           THEN Append(@, [c |-> wf.ctl, cb |-> w.cb])
                           ELSE @,
               !.ctl = createSaveController(HookWait, cfg.interval),
               !.cb = newCb]

\* the load effect: storage.getItem is called when the effect runs, the rest
\* of loadFromStorage runs when the awaited value resolves
\* a load effect without the isMountedRef guard
loadEffectUnguarded(w) ==
    IF w.enabled
    THEN [w EXCEPT !.isMountedRef = TRUE, !.load = <<w.storage>>]
    ELSE w

loadEffect(w) ==
    IF w.enabled /\ ~w.isMountedRef
    THEN [w EXCEPT !.isMountedRef = TRUE, !.load = <<w.storage>>]
    ELSE w

render(w0, newEnabled) ==
    LET w1 == Reduce([w0 EXCEPT !.enabled = newEnabled])
        newCb == [enabled |-> newEnabled, isPaused |-> w1.isPaused]
        w2 == IF ~cfg.stable \/ newCb # w0.cb
              THEN replaceController(w1, newCb)
              ELSE w1
    IN loadEffect([w2 EXCEPT !.stateRef = w1.state])

\* loadFromStorage after the await, raw being what getItem returned
loadFromStorage(w, raw) ==
    IF Len(raw) = 0 THEN w
    ELSE
    LET parsed == deserialize(raw[1]) IN
    IF Len(parsed) = 0 THEN handleError(w, "CORRUPTED_DATA")
    ELSE IF ~isValidPersistedData(parsed[1]) THEN handleError(w, "CORRUPTED_DATA")
    ELSE IF isExpired(parsed[1].env) THEN [w EXCEPT !.storage = <<>>]
    ELSE
    LET migrated == migrateData(parsed[1].env.data, parsed[1].env.version,
                                cfg.version, cfg.migrate) IN
    IF Len(migrated) = 0 THEN handleError(w, "MIGRATION_FAILED")
    ELSE
    LET data == mergeFn(cfg.merge, migrated[1], initialState)
        w1 == Dispatch(w, <<Upd("state", data), Upd("isPersisted", TRUE),
                            Upd("isRestored", TRUE),
                            Upd("lastSaved", parsed[1].env.timestamp),
                            Upd("history", <<data>>), Upd("historyIndex", 0)>>)
    IN [w1 EXCEPT !.obs.onRestore = Append(@, data), !.obs.lastSet = <<>>]

\* a clear that removes the key and leaves the bookkeeping alone
clearStorageOnly(w) == [w EXCEPT !.storage = <<>>]

clear(w) ==
    Dispatch([w EXCEPT !.storage = <<>>],
             <<Upd("isPersisted", FALSE), Upd("lastSaved", Null), Upd("size", 0)>>)

forceSave(w) == saveToStorage(ctlFlush(w), w.cb, w.stateRef)

pause(w) == [Dispatch(w, <<Upd("isPaused", TRUE)>>) EXCEPT !.ctl = cancel(w.ctl)]

resume(w) == Dispatch(w, <<Upd("isPaused", FALSE)>>)

canUndo == historyIndex > 0

canRedo == historyIndex < Len(history) - 1

undo(w) ==
    LET newIndex == historyIndex - 1 IN
    ctlSave(Dispatch(w, <<Upd("historyIndex", newIndex),
                          Upd("state", At(history, newIndex))>>),
            At(history, newIndex))

redo(w) ==
    LET newIndex == historyIndex + 1 IN
    ctlSave(Dispatch(w, <<Upd("historyIndex", newIndex),
                          Upd("state", At(history, newIndex))>>),
            At(history, newIndex))

\* the cleanup of the flush effect at unmount; updates dispatched to the
\* unmounted component are dropped
reset(w) ==
    clear(Dispatch(w, <<Upd("state", initialState),
                        Upd("history", <<initialState>>),
                        Upd("historyIndex", 0)>>))

\* a getPersistedValue without the expiry check
getPersistedValueAnyAge(w) ==
    IF Len(w.storage) = 0 THEN <<>>
    ELSE
    LET parsed == deserialize(w.storage[1]) IN
    IF Len(parsed) = 0 THEN <<>>
    ELSE IF ~isValidPersistedData(parsed[1]) THEN <<>>
    ELSE <<parsed[1].env.data>>

\* what getPersistedValue returns: <<data>>, or <<>> for null
getPersistedValue(w) ==
    IF Len(w.storage) = 0 THEN <<>>
    ELSE
    LET parsed == deserialize(w.storage[1]) IN
    IF Len(parsed) = 0 THEN <<>>
    ELSE IF ~isValidPersistedData(parsed[1]) THEN <<>>
    ELSE IF isExpired(parsed[1].env) THEN <<>>
    ELSE <<parsed[1].env.data>>

\* a revert that treats the stored data as a restore
revertAsRestore(w) ==
    LET persisted == getPersistedValue(w) IN
    IF Len(persisted) > 0
    THEN Dispatch(w, <<Upd("state", persisted[1]), Upd("isRestored", TRUE),
                       Upd("history", <<persisted[1]>>), Upd("historyIndex", 0)>>)
    ELSE w

revert(w) ==
    LET persisted == getPersistedValue(w) IN
    IF Len(persisted) > 0 THEN Dispatch(w, <<Upd("state", persisted[1])>>) ELSE w

unmount(w) == ctlFlush([w EXCEPT !.phase = "unmounted", !.queue = <<>>])

\* ------------------------------------------------ hook actions
Install(w) ==
    /\ ctl' = w.ctl /\ phase' = w.phase /\ enabled' = w.enabled
    /\ state' = w.state /\ isPersisted' = w.isPersisted
    /\ isRestored' = w.isRestored /\ lastSaved' = w.lastSaved
    /\ isPaused' = w.isPaused /\ size' = w.size /\ history' = w.history
    /\ historyIndex' = w.historyIndex /\ stateRef' = w.stateRef
    /\ isMountedRef' = w.isMountedRef /\ queue' = w.queue
    /\ storage' = w.storage /\ cb' = w.cb /\ retired' = w.retired
    /\ load' = w.load /\ obs' = w.obs
    /\ UNCHANGED <<now, trace, cfg, hm, sm, peer, lib>>

Mounted == phase = "mounted"

HookTimerDue ==
    \/ TimerDue(ctl, now)
    \/ \E k \in 1..Len(retired) : ThrottleDue(retired[k].c, now)

\* the caller acts between timers; only the setter is called while the
\* initial load is still in flight
CanSet == Mounted /\ obs.nOps < MaxOps /\ ~HookTimerDue

CanOp == CanSet /\ Len(load) = 0

NextInputs ==
    IF Len(obs.lastInput) = 0 THEN {FirstInput} ELSE Inputs \ {obs.lastInput[1]}

Op(w, name) == [w EXCEPT !.obs.nOps = @ + 1, !.obs.lastOp = name]

Edit(w, name, v) == [Op(w, name) EXCEPT !.obs.lastSet = v, !.obs.edited = TRUE]

Input(w, v) == [Edit(w, "setState", <<v>>) EXCEPT !.obs.lastInput = <<v>>]

\* setState(v), the updater evaluated eagerly by React (nothing is queued)
SetStateEager ==
    /\ CanSet
    /\ Len(queue) = 0
    /\ \E v \in NextInputs :
         Install(Input(Dispatch([updater(Cur, v) EXCEPT !.state = state],
                                <<Upd("state", v)>>), v))

\* setState(v), the updater left for the next render
SetStateQueued ==
    /\ CanSet
    /\ \E v \in NextInputs :
         Install(Input(Dispatch(Cur, <<Upd("setter", v)>>), v))

\* a render and its commit; the parent may pass a changed `enabled`
Render ==
    /\ Mounted
    /\ ~HookTimerDue
    /\ \E newEnabled \in BOOLEAN :
         /\ newEnabled # enabled => CanOp /\ cfg.toggle
         /\ \/ Len(queue) > 0
            \/ newEnabled # enabled
            \/ ~cfg.stable /\ pending(ctl)
         /\ Install(IF newEnabled # enabled THEN Op(render(Cur, newEnabled), "enabled")
                    ELSE render(Cur, newEnabled))

LoadResolve ==
    /\ Len(load) > 0
    /\ Install(loadFromStorage([Cur EXCEPT !.load = <<>>], load[1]))

Clear == CanOp /\ Install(Op(clear(Cur), "clear"))

ForceSave == CanOp /\ Install(Op(forceSave(Cur), "forceSave"))

Pause ==
    /\ CanOp
    /\ Install([Op(pause(Cur), "pause") EXCEPT !.obs.pauseCalled = TRUE])

Resume ==
    /\ CanOp
    /\ obs.pauseCalled
    /\ Install([Op(resume(Cur), "resume") EXCEPT !.obs.pauseCalled = FALSE])

Undo ==
    /\ CanOp
    /\ canUndo
    /\ Install(Edit(undo(Cur), "undo", <<>>))

Redo ==
    /\ CanOp
    /\ canRedo
    /\ Install(Edit(redo(Cur), "redo", <<>>))

Reset == CanOp /\ Install(Edit(reset(Cur), "reset", <<>>))

Revert == CanOp /\ Install(Edit(revert(Cur), "revert", <<>>))

GetPersistedValue ==
    /\ CanOp
    /\ Install([Op(Cur, "getPersistedValue") EXCEPT
                  !.obs.got = getPersistedValue(Cur)])

Unmount ==
    /\ Mounted
    /\ ~HookTimerDue
    /\ Len(load) = 0
    /\ Install([unmount(Cur) EXCEPT !.obs.lastOp = "unmount"])

HookDebounceFire ==
    /\ DebounceDue(ctl, now)
    /\ LET r == debounceTimeout(ctl) IN
         Install(RunOut([Cur EXCEPT !.ctl = r.c], cb, r.out))

HookThrottleFire ==
    /\ ThrottleDue(ctl, now)
    /\ LET r == throttleTimeout(ctl, now) IN
         Install(RunOut([Cur EXCEPT !.ctl = r.c], cb, r.out))

Drop(s, k) == SubSeq(s, 1, k - 1) \o SubSeq(s, k + 1, Len(s))

\* the throttle timer of a replaced controller
RetiredThrottleFire ==
    \E k \in 1..Len(retired) :
        /\ ThrottleDue(retired[k].c, now)
        /\ LET r == throttleTimeout(retired[k].c, now) IN
             Install(RunOut([Cur EXCEPT !.retired = Drop(@, k)], retired[k].cb, r.out))

HookTick ==
    /\ now < HookEpoch + HookMaxTime
    /\ ~HookTimerDue
    /\ Len(load) = 0
    /\ now' = now + 1
    /\ UNCHANGED <<ctl, trace, hookVars>>

\* ------------------------------------------------ hook specification
Seed(expiresAt) ==
    [kind |-> "json", shape |-> TRUE,
     env |-> [data |-> SeedData, timestamp |-> 0, version |-> 1,
              expiresAt |-> expiresAt]]

Seeds == {<<>>, <<Seed(Null)>>}

\* the option sets the instance is mounted with
Options(throttle, stable, hist, before, merge, version, migrate) ==
    [interval |-> throttle, stable |-> stable, history |-> hist,
     beforePersist |-> before, exclude |-> {"pw"}, validate |-> "none",
     version |-> version, migrate |-> migrate, merge |-> merge,
     expiration |-> 0, setItem |-> <<>>, toggle |-> TRUE]

Cfgs ==
    {Options(0, TRUE, TRUE, FALSE, "shallow", 1, "none"),
     Options(HookInterval, TRUE, FALSE, TRUE, "prefer-initial", 2, "fn"),
     Options(0, FALSE, FALSE, TRUE, "deep", 2, "none"),
     Options(HookInterval, FALSE, TRUE, FALSE, "prefer-stored", 1, "fn")}

\* the state after the first render has been committed and its effects run
Mount(options, enabledOption, stored) ==
    /\ now = HookEpoch
    /\ trace = <<>>
    /\ NoHistory
    /\ NoSync
    /\ NoLib
    /\ cfg = options
    /\ phase = "mounted"
    /\ enabled = enabledOption
    /\ storage = stored
    /\ state = initialState
    /\ isPersisted = FALSE /\ isRestored = FALSE /\ lastSaved = Null
    /\ isPaused = FALSE /\ size = 0
    /\ history = <<initialState>> /\ historyIndex = 0
    /\ stateRef = initialState
    /\ isMountedRef = enabled
    /\ load = IF enabled THEN <<storage>> ELSE <<>>
    /\ queue = <<>>
    /\ ctl = createSaveController(HookWait, cfg.interval)
    /\ cb = [enabled |-> enabled, isPaused |-> FALSE]
    /\ retired = <<>>
    /\ obs = [lastSet |-> <<>>, edited |-> FALSE, pauseCalled |-> FALSE,
              wrotePaused |-> FALSE, wroteDisabled |-> FALSE,
              lastWrite |-> <<>>, lastInput |-> <<>>, onRestore |-> <<>>, errors |-> <<>>,
              storageFull |-> <<>>, nOps |-> 0, lastOp |-> "mount", got |-> <<>>,
              found |-> stored]

InitHook ==
    \E options \in Cfgs : \E enabledOption \in BOOLEAN : \E stored \in Seeds :
        Mount(options, enabledOption, stored) /\ NoPeer

NextHook ==
    \/ SetStateEager
    \/ SetStateQueued
    \/ Render
    \/ LoadResolve
    \/ Clear
    \/ ForceSave
    \/ Pause
    \/ Resume
    \/ Undo
    \/ Redo
    \/ Unmount
    \/ HookDebounceFire
    \/ HookThrottleFire
    \/ RetiredThrottleFire
    \/ HookTick

SpecHook == InitHook /\ [][NextHook]_vars

\* ------------------------------------------------ hook specification with
\* failing storage, rejected data, unusable stored values and every action
\* what getItem returns for a value that is not JSON
Garbage == [kind |-> "text", shape |-> FALSE, env |-> <<>>]

\* JSON that is an object without timestamp and version
BadShape == [kind |-> "json", shape |-> FALSE, env |-> [data |-> SeedData]]

History == Options(0, TRUE, TRUE, FALSE, "shallow", 1, "none")

Throttle == Options(HookInterval, TRUE, FALSE, TRUE, "prefer-initial", 2, "fn")

Unstable == Options(0, FALSE, FALSE, TRUE, "deep", 2, "none")

UnstableThrottle == Options(HookInterval, FALSE, TRUE, FALSE, "prefer-stored", 1, "fn")

\* the mounts explored: options and the stored value found
Mounts ==
    {<<History, <<Seed(HookEpoch + 1)>>>>,
     <<[History EXCEPT !.setItem = <<QuotaError>>], <<>>>>,
     <<[Throttle EXCEPT !.setItem = <<DeniedError>>], <<Seed(Null)>>>>,
     <<[UnstableThrottle EXCEPT !.setItem = <<FullError>>], <<>>>>,
     <<[History EXCEPT !.validate = "fn"], <<>>>>,
     <<[Throttle EXCEPT !.validate = "throws"], <<Seed(Null)>>>>,
     <<[Throttle EXCEPT !.migrate = "throws"], <<Seed(Null)>>>>,
     <<History, <<Garbage>>>>,
     <<Unstable, <<BadShape>>>>,
     <<UnstableThrottle, <<Seed(HookEpoch - 1)>>>>}

InitHookOps ==
    \E m \in Mounts :
        Mount([m[1] EXCEPT !.toggle = FALSE], TRUE, m[2]) /\ NoPeer

NextHookOps ==
    \/ SetStateEager
    \/ SetStateQueued
    \/ Render
    \/ LoadResolve
    \/ Clear
    \/ Reset
    \/ Revert
    \/ GetPersistedValue
    \/ ForceSave
    \/ Pause
    \/ Resume
    \/ Undo
    \/ Redo
    \/ Unmount
    \/ HookDebounceFire
    \/ HookThrottleFire
    \/ RetiredThrottleFire
    \/ HookTick

SpecHookOps == InitHookOps /\ [][NextHookOps]_vars

\* ================================================================ HistoryManager
HmMaxLength == 3
HmMaxVal == 2

\* the states pushed are numbers
HmVals == 0..HmMaxVal

\* goTo is called with any integer, in and out of range
HmTargets == (0 - 2)..(HmMaxLength + 1)

HistoryManager(initial, maxLength) ==
    [states |-> <<initial>>, index |-> 0, maxLength |-> maxLength]

\* states[index] of the source (0-based); undefined is <<>>
hmCurrent(h) ==
    IF h.index + 1 \in 1..Len(h.states) THEN <<h.states[h.index + 1]>> ELSE <<>>

hmIndex(h) == h.index

hmLength(h) == Len(h.states)

hmCanUndo(h) == h.index > 0

hmCanRedo(h) == h.index < Len(h.states) - 1

\* Array.prototype.slice(0, end) for end >= 0
Slice(s, end) == SubSeq(s, 1, Min(end, Len(s)))

\* a push that keeps the forward entries
hmPushAppend(h, newState) ==
    LET pushed == h.states \o <<newState>>
        newStates == IF Len(pushed) > h.maxLength THEN Tail(pushed) ELSE pushed
    IN [h EXCEPT !.states = newStates, !.index = Len(newStates) - 1]

\* a push that trims the entry before the pushed one
hmPushDropNewest(h, newState) ==
    LET pushed == Slice(h.states, h.index + 1) \o <<newState>>
        newStates == IF Len(pushed) > h.maxLength
                     THEN SubSeq(pushed, 1, Len(pushed) - 2) \o <<newState>>
                     ELSE pushed
    IN [h EXCEPT !.states = newStates, !.index = Len(newStates) - 1]

hmPush(h, newState) ==
    LET pushed == Slice(h.states, h.index + 1) \o <<newState>>
        newStates == IF Len(pushed) > h.maxLength THEN Tail(pushed) ELSE pushed
    IN [h EXCEPT !.states = newStates, !.index = Len(newStates) - 1]

\* an undo that forgets the entry it leaves
hmUndoDropping(h) ==
    IF ~hmCanUndo(h) THEN h
    ELSE [h EXCEPT !.index = @ - 1, !.states = Slice(@, h.index)]

hmUndo(h) == IF ~hmCanUndo(h) THEN h ELSE [h EXCEPT !.index = @ - 1]

hmRedo(h) == IF ~hmCanRedo(h) THEN h ELSE [h EXCEPT !.index = @ + 1]

Max(a, b) == IF a > b THEN a ELSE b

\* goTo without the clamp
hmGoToUnclamped(h, targetIndex) == [h EXCEPT !.index = targetIndex]

hmGoTo(h, targetIndex) ==
    [h EXCEPT !.index = Max(0, Min(targetIndex, Len(h.states) - 1))]

hmReset(h, newInitialState) ==
    [h EXCEPT !.states = <<newInitialState>>, !.index = 0]

\* ------------------------------------------------ HistoryManager actions
\* the observer keeps the last call and what it returned (<<>>: void)
Returned(ev, arg, ret) == <<[ev |-> ev, arg |-> arg, ret |-> ret]>>

HmPush ==
    \E v \in HmVals :
        /\ hm' = hmPush(hm, v)
        /\ trace' = Returned("push", v, <<>>)
        /\ UNCHANGED <<now, ctl, instVars, sm, peer, lib>>

HmUndo ==
    /\ hm' = hmUndo(hm)
    /\ trace' = Returned("undo", 0, hmCurrent(hm'))
    /\ UNCHANGED <<now, ctl, instVars, sm, peer, lib>>

HmRedo ==
    /\ hm' = hmRedo(hm)
    /\ trace' = Returned("redo", 0, hmCurrent(hm'))
    /\ UNCHANGED <<now, ctl, instVars, sm, peer, lib>>

HmGoTo ==
    \E i \in HmTargets :
        /\ hm' = hmGoTo(hm, i)
        /\ trace' = Returned("goTo", i, hmCurrent(hm'))
        /\ UNCHANGED <<now, ctl, instVars, sm, peer, lib>>

HmReset ==
    \E v \in HmVals :
        /\ hm' = hmReset(hm, v)
        /\ trace' = Returned("reset", v, <<>>)
        /\ UNCHANGED <<now, ctl, instVars, sm, peer, lib>>

InitHistory ==
    /\ now = Epoch
    /\ trace = <<>>
    /\ ctl = createSaveController(1, 0)
    /\ NoHook
    /\ NoSync
    /\ NoPeer
    /\ NoLib
    /\ \E v \in HmVals : \E m \in 1..HmMaxLength : hm = HistoryManager(v, m)

NextHistory ==
    \/ HmPush
    \/ HmUndo
    \/ HmRedo
    \/ HmGoTo
    \/ HmReset

SpecHistory == InitHistory /\ [][NextHistory]_vars

\* ================================================================ SyncManager
SmMaxData == 2

\* the form data carried by messages and stored envelopes: objects
SmData == {[name |-> i] : i \in 1..SmMaxData}

\* this instance's key and another form's key
SmKey == "form"

SmKeys == {SmKey, "other"}

\* generateTabId() of this instance and of another tab
SmTabId == "tab1"

SmTabs == {SmTabId, "tab2"}

SmStrategies == {"unset", "latest-wins", "merge", "ask-user"}

\* SyncOptions: strategy, and whether conflictResolver and onSync are given
SyncOptions(strategy, conflictResolver, onSync) ==
    [strategy |-> strategy, conflictResolver |-> conflictResolver, onSync |-> onSync]

\* SyncMessage; data is <<>> (undefined) or <<d>>
SyncMessage(type, key, data, timestamp, tabId) ==
    [type |-> type, key |-> key, data |-> data, timestamp |-> timestamp,
     tabId |-> tabId]

\* the messages a channel can deliver
SmMessages ==
    {SyncMessage("update", k, <<d>>, Epoch, t) : k \in SmKeys, d \in SmData, t \in SmTabs}
    \cup {SyncMessage(ty, k, <<>>, Epoch, t) :
            ty \in {"update", "clear", "request"}, k \in SmKeys, t \in SmTabs}

\* strings found in a storage event: not JSON, the JSON null, an object
\* without a data field, an envelope
SmStrings ==
    {[json |-> FALSE, null |-> FALSE, fields |-> <<>>],
     [json |-> TRUE, null |-> TRUE, fields |-> <<>>],
     [json |-> TRUE, null |-> FALSE, fields |-> [version |-> 1]]}
    \cup {[json |-> TRUE, null |-> FALSE, fields |-> [data |-> d, version |-> 1]] :
            d \in SmData}

\* StorageEvent; newValue is <<>> (null) or <<string>>
SmEvents == {[key |-> k, newValue |-> v] :
                k \in SmKeys, v \in {<<>>} \cup {<<x>> : x \in SmStrings}}

\* JSON.parse: <<>> when it throws, else <<value>>
JSONparse(str) == IF str.json THEN <<str>> ELSE <<>>

\* `parsed && parsed.data` for the parsed values above
HasData(parsed) == ~parsed.null /\ "data" \in DOMAIN parsed.fields

\* the instance after the constructor ran in a browser; hasChannel: the
\* BroadcastChannel constructor exists and did not throw
SyncManager(key, options, hasChannel) ==
    [key |-> key, options |-> options, tabId |-> SmTabId, channel |-> hasChannel,
     callback |-> <<>>, isDestroyed |-> FALSE,
     onmessage |-> hasChannel, listening |-> TRUE]

\* one invocation of a function given by the caller
Invoked(fn, data, source) == [fn |-> fn, data |-> data, source |-> source]

\* this.callback?.(data, source)
callCallback(w, data, source) ==
    IF Len(w.this.callback) = 0 THEN w
    ELSE [w EXCEPT !.calls = Append(@, Invoked(w.this.callback[1], data, source))]

\* this.options.onSync?.(data, source)
callOnSync(w, data, source) ==
    IF ~w.this.options.onSync THEN w
    ELSE [w EXCEPT !.calls = Append(@, Invoked("options.onSync", data, source))]

\* an incoming-data handler that lets the resolver decide
handleIncomingDataResolved(w, data, source) ==
    LET strategy == IF w.this.options.strategy = "unset" THEN "latest-wins"
                    ELSE w.this.options.strategy
    IN IF strategy = "latest-wins"
       THEN callOnSync(callCallback(w, <<data>>, source), <<data>>, source)
       ELSE IF w.this.options.conflictResolver
       THEN [w EXCEPT !.calls = Append(@, Invoked("options.conflictResolver",
                                                  <<data>>, source))]
       ELSE callOnSync(callCallback(w, <<data>>, source), <<data>>, source)

handleIncomingData(w, data, source) ==
    LET strategy == IF w.this.options.strategy = "unset" THEN "latest-wins"
                    ELSE w.this.options.strategy
    IN IF strategy = "latest-wins"
       THEN callOnSync(callCallback(w, <<data>>, source), <<data>>, source)
       ELSE IF w.this.options.conflictResolver
       THEN callOnSync(callCallback(w, <<data>>, source), <<data>>, source)
       ELSE callOnSync(callCallback(w, <<data>>, source), <<data>>, source)

\* a message handler without the tab filter
handleBroadcastMessageAnyTab(w, message) ==
    IF w.this.isDestroyed THEN w
    ELSE IF message.key # w.this.key THEN w
    ELSE IF message.type = "update" /\ Len(message.data) > 0
    THEN handleIncomingData(w, message.data[1], "broadcast")
    ELSE IF message.type = "clear" THEN callOnSync(w, <<>>, "broadcast")
    ELSE w

handleBroadcastMessage(w, message) ==
    IF w.this.isDestroyed THEN w
    ELSE IF message.tabId = w.this.tabId THEN w
    ELSE IF message.key # w.this.key THEN w
    ELSE IF message.type = "update" /\ Len(message.data) > 0
    THEN handleIncomingData(w, message.data[1], "broadcast")
    ELSE IF message.type = "clear" THEN callOnSync(w, <<>>, "broadcast")
    ELSE w

handleStorageEvent(w, event) ==
    IF w.this.isDestroyed THEN w
    ELSE IF event.key # w.this.key THEN w
    ELSE IF Len(event.newValue) = 0 THEN callOnSync(w, <<>>, "storage")
    ELSE LET parsed == JSONparse(event.newValue[1]) IN
         IF Len(parsed) = 0 THEN w
         ELSE IF HasData(parsed[1])
         THEN handleIncomingData(w, parsed[1].fields.data, "storage")
         ELSE w

smOnSync(w, callback) == [w EXCEPT !.this.callback = <<callback>>]

\* this.channel.postMessage(message) when there is a channel
postMessage(w, message) ==
    IF w.this.channel THEN [w EXCEPT !.posted = Append(@, message)] ELSE w

broadcast(w, data) ==
    IF w.this.isDestroyed THEN w
    ELSE postMessage(w, SyncMessage("update", w.this.key, <<data>>, now, w.this.tabId))

broadcastClear(w) ==
    IF w.this.isDestroyed THEN w
    ELSE postMessage(w, SyncMessage("clear", w.this.key, <<>>, now, w.this.tabId))

requestSync(w) ==
    IF w.this.isDestroyed THEN w
    ELSE postMessage(w, SyncMessage("request", w.this.key, <<>>, now, w.this.tabId))

\* a destroy that closes the channel and drops the callback only
destroyDetachOnly(w) ==
    [w EXCEPT !.this.channel = FALSE, !.this.callback = <<>>]

\* removeEventListener is given handleStorageEvent itself, not the bound
\* copy that was added: the listener stays attached
destroy(w) ==
    [w EXCEPT !.this.isDestroyed = TRUE, !.this.channel = FALSE,
              !.this.callback = <<>>]

\* ------------------------------------------------ SyncManager actions
\* the observer keeps the last event, its argument, the functions it
\* invoked, the messages it posted, and whether destroy() was ever called
SmStep(ev, arg) == [sm EXCEPT !.ev = ev, !.arg = arg, !.calls = <<>>, !.posted = <<>>]

SmRest == UNCHANGED <<now, ctl, trace, instVars, hm, peer, lib>>

SmOnSync ==
    \E callback \in {"f", "g"} :
        /\ sm' = smOnSync(SmStep("onSync", callback), callback)
        /\ SmRest

SmBroadcast ==
    \E d \in SmData :
        /\ sm' = broadcast(SmStep("broadcast", d), d)
        /\ SmRest

SmBroadcastClear ==
    /\ sm' = broadcastClear(SmStep("broadcastClear", <<>>))
    /\ SmRest

SmRequestSync ==
    /\ sm' = requestSync(SmStep("requestSync", <<>>))
    /\ SmRest

SmDestroy ==
    /\ sm' = destroy([SmStep("destroy", <<>>) EXCEPT !.destroyCalled = TRUE])
    /\ SmRest

\* the channel delivers a message; one already dispatched can still arrive
\* after close()
SmMessage ==
    \E m \in SmMessages :
        /\ sm.this.onmessage
        /\ sm' = handleBroadcastMessage(SmStep("message", m), m)
        /\ SmRest

\* the window delivers a storage event
SmStorage ==
    \E e \in SmEvents :
        /\ sm.this.listening
        /\ sm' = handleStorageEvent(SmStep("storage", e), e)
        /\ SmRest

InitSync ==
    /\ now = Epoch
    /\ trace = <<>>
    /\ ctl = createSaveController(1, 0)
    /\ NoHook
    /\ NoHistory
    /\ NoPeer
    /\ NoLib
    /\ \E strategy \in SmStrategies : \E conflictResolver, onSync, hasChannel \in BOOLEAN :
          sm = [this |-> SyncManager(SmKey, SyncOptions(strategy, conflictResolver, onSync),
                                     hasChannel),
                ev |-> "new", arg |-> <<>>, calls |-> <<>>, posted |-> <<>>,
                destroyCalled |-> FALSE]

NextSync ==
    \/ SmOnSync
    \/ SmBroadcast
    \/ SmBroadcastClear
    \/ SmRequestSync
    \/ SmDestroy
    \/ SmMessage
    \/ SmStorage

SpecSync == InitSync /\ [][NextSync]_vars

\* ================================================================ deepMerge on nested values
MergeMaxLeaf == 1

\* a JSON value is a leaf (string, number, ...) or a plain object; both
\* carry a function from keys so that any two values compare
Leaf(n) == [plain |-> FALSE, f |-> [k \in {"="} |-> n]]

Obj(fields) == [plain |-> TRUE, f |-> fields]

isPlainObject(value) == value.plain

ObjectKeys(value) == DOMAIN value.f

MergeLeaves == {Leaf(n) : n \in 1..MergeMaxLeaf}

\* the objects with at most two of the keys, their values among `values`
Objects(keys, values) ==
    {Obj(fields) :
        fields \in UNION {[D -> values] : D \in {S \in SUBSET keys : Cardinality(S) <= 2}}}

\* what JSON.parse can hand over as stored data: own keys of any name,
\* `__proto__`, `constructor` and `prototype` included, one level nested
StoredValues(d) ==
    Objects({"a", "b", d}, MergeLeaves \cup Objects({"a", d}, MergeLeaves))

InitialValues(d) ==
    Objects({"a", d}, MergeLeaves \cup Objects({"a", d}, MergeLeaves))

\* deepMerge with values that nest; stored is never null or undefined here
RECURSIVE deepMergeNested(_, _)
deepMergeNested(stored, initial) ==
    IF ~isPlainObject(initial) \/ ~isPlainObject(stored) THEN stored
    ELSE LET merged == ObjectKeys(stored) \ dangerousKeys IN
         Obj([key \in ObjectKeys(initial) \cup merged |->
                IF key \notin merged THEN initial.f[key]
                ELSE IF /\ key \in ObjectKeys(initial)
                        /\ isPlainObject(stored.f[key])
                        /\ isPlainObject(initial.f[key])
                THEN deepMergeNested(stored.f[key], initial.f[key])
                ELSE stored.f[key]])

\* ------------------------------------------------ the utility calls
Called(fn, args, ret) == [fn |-> fn, args |-> args, ret |-> ret]

LibRest == UNCHANGED <<now, ctl, trace, instVars, hm, sm, peer>>

InitLib ==
    /\ now = Epoch
    /\ trace = <<>>
    /\ ctl = createSaveController(1, 0)
    /\ NoHook
    /\ NoHistory
    /\ NoSync
    /\ NoPeer

DeepMerge ==
    /\ lib.fn = "input"
    /\ lib' = Called("deepMerge", lib.args, <<deepMergeNested(lib.args[1], lib.args[2])>>)
    /\ LibRest

InitMerge ==
    /\ InitLib
    /\ \E d \in dangerousKeys : \E stored \in StoredValues(d) : \E initial \in InitialValues(d) :
          lib = Called("input", <<stored, initial>>, <<>>)

NextMerge == DeepMerge

SpecMerge == InitMerge /\ [][NextMerge]_vars

\* ================================================================ transform pipeline
TrMaxRuns == 2

DEFAULT_COMPRESSION_THRESHOLD == 1024

\* A string is the sequence of its character codes.
QuoteChar == 34

Backslash == 92

LetterU == 117

DigitZero == 48

LetterA == 97

\* String.prototype.repeat
Repeat(c, n) == [j \in 1..n |-> c]

\* The values serialized are strings, written as their runs of equal
\* characters: letters, digits and the control character U+0000
TextRun(c, n) == [c |-> c, n |-> n]

TrLengths == {3, 4, 256, 1030}

TrRuns ==
    {TextRun(c, n) : c \in {LetterA, DigitZero}, n \in TrLengths} \cup {TextRun(0, 1)}

TrValues ==
    {v \in UNION {[1..k -> TrRuns] : k \in 0..TrMaxRuns} :
        \A i \in 1..(Len(v) - 1) : v[i].c # v[i + 1].c}

\* a hexadecimal digit, lower case as JSON.stringify writes it
HexDigit(d) == IF d < 10 THEN DigitZero + d ELSE LetterA + d - 10

IsHex(c) == c \in DigitZero..(DigitZero + 9) \cup LetterA..(LetterA + 5)

HexVal(c) == IF c < LetterA THEN c - DigitZero ELSE c - LetterA + 10

\* JSON.stringify of the characters of a string: control characters become
\* \u00XX, the others stay
RECURSIVE Escaped(_)
Escaped(v) ==
    IF v = <<>> THEN <<>>
    ELSE LET c == Head(v).c
             n == Head(v).n
             esc == <<Backslash, LetterU, DigitZero, DigitZero,
                      HexDigit(c \div 16), HexDigit(c % 16)>>
         IN (IF c < 32 THEN [j \in 1..(6 * n) |-> esc[((j - 1) % 6) + 1]]
             ELSE Repeat(c, n)) \o Escaped(Tail(v))

defaultSerialize(data) == <<QuoteChar>> \o Escaped(data) \o <<QuoteChar>>

\* the positions where the character differs from the one before
Boundaries(s) == {j \in 2..Len(s) : s[j] # s[j - 1]}

Least(S) == CHOOSE m \in S : \A x \in S : m <= x

\* the last position of the run of equal characters that position i is in
RunEnd(s, B, i) ==
    LET later == {b \in B : b > i} IN
    IF later = {} THEN Len(s) ELSE Least(later) - 1

\* the value read so far, with n more characters c
PushRun(acc, c, n) ==
    IF Len(acc) > 0 /\ acc[Len(acc)].c = c
    THEN [acc EXCEPT ![Len(acc)].n = @ + n]
    ELSE Append(acc, TextRun(c, n))

\* JSON.parse inside the quotes of a string literal, from position i:
\* <<value>>, or <<>> where it throws
RECURSIVE ParseChars(_, _, _, _)
ParseChars(s, B, i, acc) ==
    IF i >= Len(s) THEN <<acc>>
    ELSE IF s[i] = Backslash
    THEN IF i + 5 < Len(s) /\ s[i + 1] = LetterU /\ \A j \in 2..5 : IsHex(s[i + j])
         THEN ParseChars(s, B, i + 6,
                         PushRun(acc, 4096 * HexVal(s[i + 2]) + 256 * HexVal(s[i + 3])
                                      + 16 * HexVal(s[i + 4]) + HexVal(s[i + 5]), 1))
         ELSE <<>>
    ELSE IF s[i] < 32 \/ s[i] = QuoteChar THEN <<>>
    ELSE LET e == Min(RunEnd(s, B, i), Len(s) - 1) IN
         ParseChars(s, B, e + 1, PushRun(acc, s[i], e - i + 1))

\* JSON.parse of a text, caught: <<value>>, or <<>> for null
defaultDeserialize(data) ==
    IF Len(data) < 2 \/ data[1] # QuoteChar \/ data[Len(data)] # QuoteChar THEN <<>>
    ELSE ParseChars(data, Boundaries(data), 2, <<>>)

\* ------------------------------------------------ base64Encode / base64Decode
\* encodeURIComponent and the %XX replacement: the UTF-8 bytes
RECURSIVE Utf8Encode(_)
Utf8Encode(s) ==
    IF s = <<>> THEN <<>>
    ELSE (IF Head(s) < 128 THEN <<Head(s)>>
          ELSE <<192 + (Head(s) \div 64), 128 + (Head(s) % 64)>>) \o Utf8Encode(Tail(s))

Utf8Bytes(s) == IF \A i \in 1..Len(s) : s[i] < 128 THEN s ELSE Utf8Encode(s)

\* decodeURIComponent of the percent-encoded bytes: <<string>>, or <<>>
\* where it throws
RECURSIVE Utf8Decode(_)
Utf8Decode(b) ==
    IF b = <<>> THEN <<<<>>>>
    ELSE IF Head(b) < 128
    THEN LET rest == Utf8Decode(Tail(b)) IN
         IF Len(rest) = 0 THEN <<>> ELSE <<<<Head(b)>> \o rest[1]>>
    ELSE IF /\ Head(b) \in 194..223
            /\ Len(b) >= 2
            /\ b[2] \in 128..191
    THEN LET rest == Utf8Decode(Tail(Tail(b))) IN
         IF Len(rest) = 0 THEN <<>>
         ELSE <<<<(Head(b) - 192) * 64 + (b[2] - 128)>> \o rest[1]>>
    ELSE <<>>

Utf8String(b) == IF \A i \in 1..Len(b) : b[i] < 128 THEN <<b>> ELSE Utf8Decode(b)

PadChar == 61

\* the character of a 6-bit value in the base64 alphabet
B64Char(v) ==
    IF v < 26 THEN 65 + v
    ELSE IF v < 52 THEN 97 + (v - 26)
    ELSE IF v < 62 THEN 48 + (v - 52)
    ELSE IF v = 62 THEN 43 ELSE 47

\* the 6-bit value of a character, 0 - 1 outside the alphabet
B64Val(c) ==
    IF c \in 65..90 THEN c - 65
    ELSE IF c \in 97..122 THEN c - 97 + 26
    ELSE IF c \in 48..57 THEN c - 48 + 52
    ELSE IF c = 43 THEN 62
    ELSE IF c = 47 THEN 63 ELSE 0 - 1

btoa(bytes) ==
    [k \in 1..(4 * ((Len(bytes) + 2) \div 3)) |->
        LET g == (k - 1) \div 4
            at == (k - 1) % 4
            b1 == bytes[3 * g + 1]
            b2 == IF 3 * g + 2 <= Len(bytes) THEN bytes[3 * g + 2] ELSE 0
            b3 == IF 3 * g + 3 <= Len(bytes) THEN bytes[3 * g + 3] ELSE 0
        IN CASE at = 0 -> B64Char(b1 \div 4)
             [] at = 1 -> B64Char((b1 % 4) * 16 + (b2 \div 16))
             [] at = 2 -> IF 3 * g + 2 > Len(bytes) THEN PadChar
                          ELSE B64Char((b2 % 16) * 4 + (b3 \div 64))
             [] at = 3 -> IF 3 * g + 3 > Len(bytes) THEN PadChar
                          ELSE B64Char(b3 % 64)]

\* atob of padded base64: <<bytes>>, or <<>> where it throws
atob(chars) ==
    LET n == Len(chars)
        pad == IF n > 0 /\ chars[n] = PadChar
               THEN (IF n > 1 /\ chars[n - 1] = PadChar THEN 2 ELSE 1)
               ELSE 0
        val(k) == IF chars[k] = PadChar THEN 0 ELSE B64Val(chars[k])
    IN IF \/ n % 4 # 0
          \/ \E k \in 1..(n - pad) : B64Val(chars[k]) < 0
       THEN <<>>
       ELSE <<[k \in 1..(3 * (n \div 4) - pad) |->
                LET g == (k - 1) \div 3
                    at == (k - 1) % 3
                IN CASE at = 0 -> val(4 * g + 1) * 4 + (val(4 * g + 2) \div 16)
                     [] at = 1 -> (val(4 * g + 2) % 16) * 16 + (val(4 * g + 3) \div 4)
                     [] at = 2 -> (val(4 * g + 3) % 4) * 64 + val(4 * g + 4)]>>

base64Encode(data) == btoa(Utf8Bytes(data))

base64Decode(data) ==
    LET raw == atob(data) IN
    IF Len(raw) = 0 THEN data
    ELSE LET decoded == Utf8String(raw[1]) IN
         IF Len(decoded) = 0 THEN data ELSE decoded[1]

\* ------------------------------------------------ simpleCompress / simpleDecompress
\* what the loop appends when it flushes a count of prevChar
Flushed(prevChar, count) ==
    IF count >= 4 THEN <<0, count, prevChar>> ELSE Repeat(prevChar, count)

\* the loop over a run of n equal characters: it flushes at every 255 and
\* at the end of the run
RunFlushed(c, n) ==
    [j \in 1..(3 * (n \div 255)) |-> <<0, 255, c>>[((j - 1) % 3) + 1]]
    \o (IF n % 255 > 0 THEN Flushed(c, n % 255) ELSE <<>>)

RECURSIVE CompressFrom(_, _, _)
CompressFrom(data, B, i) ==
    IF i > Len(data) THEN <<>>
    ELSE LET e == RunEnd(data, B, i) IN
         RunFlushed(data[i], e - i + 1) \o CompressFrom(data, B, e + 1)

\* a compression that leaves the marker out
simpleCompressNoMarker(data) ==
    IF Len(data) < DEFAULT_COMPRESSION_THRESHOLD THEN data
    ELSE LET result == CompressFrom(data, Boundaries(data), 1) IN
         IF Len(result) < Len(data) THEN result ELSE data

simpleCompress(data) ==
    IF Len(data) < DEFAULT_COMPRESSION_THRESHOLD THEN data
    ELSE LET result == CompressFrom(data, Boundaries(data), 1) IN
         IF Len(result) < Len(data) THEN <<1>> \o result ELSE data

\* the while loop from position i: <<result>>, or <<>> where
\* char.repeat throws on a truncated triple
RECURSIVE DecompressFrom(_, _, _)
DecompressFrom(data, i, result) ==
    IF i > Len(data) THEN <<result>>
    ELSE IF data[i] = 0
    THEN IF i + 2 > Len(data) THEN <<>>
         ELSE DecompressFrom(data, i + 3, result \o Repeat(data[i + 2], data[i + 1]))
    ELSE DecompressFrom(data, i + 1, Append(result, data[i]))

simpleDecompress(data) ==
    IF Len(data) = 0 \/ data[1] # 1 THEN <<data>>
    ELSE DecompressFrom(data, 2, <<>>)

\* ------------------------------------------------ createTransformPipeline
\* the compress argument: false or undefined, true, or { threshold }
CompressOff == [kind |-> "false", threshold |-> DEFAULT_COMPRESSION_THRESHOLD]

CompressOn == [kind |-> "true", threshold |-> DEFAULT_COMPRESSION_THRESHOLD]

CompressAbove(threshold) == [kind |-> "object", threshold |-> threshold]

createTransformPipeline(compress, encrypt) ==
    [shouldCompress |-> compress.kind \in {"true", "object"},
     compressionThreshold |-> IF compress.kind = "object" THEN compress.threshold
                              ELSE DEFAULT_COMPRESSION_THRESHOLD,
     encrypt |-> encrypt]

pipelineSerialize(pipeline, data) ==
    LET json == defaultSerialize(data)
        packed == IF pipeline.shouldCompress /\ Len(json) >= pipeline.compressionThreshold
                  THEN simpleCompress(json) ELSE json
    IN IF pipeline.encrypt THEN base64Encode(packed) ELSE packed

\* <<value>>, or <<>> for null
pipelineDeserialize(pipeline, data) ==
    LET plain == IF pipeline.encrypt THEN base64Decode(data) ELSE data
        unpacked == IF pipeline.shouldCompress THEN simpleDecompress(plain) ELSE <<plain>>
    IN IF Len(unpacked) = 0 THEN <<>> ELSE defaultDeserialize(unpacked[1])

TrPipelines ==
    {createTransformPipeline(compress, encrypt) :
        compress \in {CompressOff, CompressOn, CompressAbove(16), CompressAbove(2048)},
        encrypt \in BOOLEAN}

Serialize ==
    /\ lib.fn = "input"
    /\ lib' = Called("serialize", lib.args, <<pipelineSerialize(lib.args[1], lib.args[2])>>)
    /\ LibRest

Deserialize ==
    /\ lib.fn = "serialize"
    /\ lib' = Called("deserialize", <<lib.args[1], lib.args[2], lib.ret[1]>>,
                     pipelineDeserialize(lib.args[1], lib.ret[1]))
    /\ LibRest

InitTransform ==
    /\ InitLib
    /\ \E pipeline \in TrPipelines : \E x \in TrValues :
          lib = Called("input", <<pipeline, x>>, <<>>)

NextTransform ==
    \/ Serialize
    \/ Deserialize

SpecTransform == InitTransform /\ [][NextTransform]_vars

\* ================================================================ clearGroup
GrpMaxItems == 2

GrpMaxVal == 2

\* keys are strings, written as the sequence of their characters
DEFAULT_KEY_PREFIX == <<"r", "f", "p", ":">>

GrpKeys ==
    {DEFAULT_KEY_PREFIX \o <<"a">>,
     DEFAULT_KEY_PREFIX \o <<"a", "b">>,
     DEFAULT_KEY_PREFIX \o <<"b">>,
     <<"a">>,
     <<>>}

GrpPrefixes == {<<>>, <<"a">>, <<"a", "b">>}

\* String.prototype.startsWith
startsWith(str, searchString) ==
    /\ Len(searchString) <= Len(str)
    /\ SubSeq(str, 1, Len(searchString)) = searchString

\* a Storage: its entries in key(i) order; key(i) throws at the 1-based
\* position keyThrows (0: never), removeItem throws for the keys in
\* removeThrows
GrpStorage(items, keyThrows, removeThrows) ==
    [items |-> items, keyThrows |-> keyThrows, removeThrows |-> removeThrows]

\* the loop over storage.key(i) threw
KeyThrew(store) == store.keyThrows \in 1..Len(store.items)

\* `key && key.startsWith(fullPrefix)`
Matches(key, fullPrefix) == key # <<>> /\ startsWith(key, fullPrefix)

\* storage.removeItem(key), its exception swallowed
grpRemoveItem(store, key) ==
    IF key \in store.removeThrows THEN store
    ELSE [store EXCEPT !.items = SelectSeq(@, LAMBDA e : e.key # key)]

RECURSIVE RemoveEach(_, _)
RemoveEach(store, keysToRemove) ==
    IF keysToRemove = <<>> THEN store
    ELSE RemoveEach(grpRemoveItem(store, Head(keysToRemove)), Tail(keysToRemove))

\* <<the number returned, the store afterwards>>
clearGroup(prefix, store) ==
    LET fullPrefix == DEFAULT_KEY_PREFIX \o prefix
        keysToRemove == SelectSeq([i \in 1..Len(store.items) |-> store.items[i].key],
                                  LAMBDA key : Matches(key, fullPrefix))
    IN IF KeyThrew(store) THEN <<0, store>>
       ELSE <<Len(keysToRemove), RemoveEach(store, keysToRemove)>>

\* the keys pushed before key(i) throws, without the default prefix
getGroupKeys(prefix, store) ==
    LET fullPrefix == DEFAULT_KEY_PREFIX \o prefix
        last == IF KeyThrew(store) THEN store.keyThrows - 1 ELSE Len(store.items)
        seen == [i \in 1..last |-> store.items[i].key]
        keys == SelectSeq(seen, LAMBDA key : Matches(key, fullPrefix))
    IN [i \in 1..Len(keys) |-> SubSeq(keys[i], Len(DEFAULT_KEY_PREFIX) + 1, Len(keys[i]))]

hasGroupData(prefix, store) == Len(getGroupKeys(prefix, store)) > 0

\* ------------------------------------------------ clearGroup actions
\* the application fills the storage
GrpSetItem ==
    \E key \in GrpKeys : \E value \in 1..GrpMaxVal :
        /\ lib.fn = "input"
        /\ Len(lib.args[2].items) < GrpMaxItems
        /\ \A i \in 1..Len(lib.args[2].items) : lib.args[2].items[i].key # key
        /\ lib' = [lib EXCEPT !.args[2].items = Append(@, [key |-> key, value |-> value])]
        /\ LibRest

ClearGroup ==
    /\ lib.fn = "input"
    /\ lib' = Called("clearGroup", lib.args, clearGroup(lib.args[1], lib.args[2]))
    /\ LibRest

GetGroupKeys ==
    /\ lib.fn = "clearGroup"
    /\ lib' = Called("getGroupKeys", lib.args,
                     lib.ret \o <<getGroupKeys(lib.args[1], lib.ret[2])>>)
    /\ LibRest

HasGroupData ==
    /\ lib.fn = "getGroupKeys"
    /\ lib' = Called("hasGroupData", lib.args,
                     lib.ret \o <<hasGroupData(lib.args[1], lib.ret[2])>>)
    /\ LibRest

InitGroup ==
    /\ InitLib
    /\ \E prefix \in GrpPrefixes : \E keyThrows \in 0..GrpMaxItems :
       \E removeThrows \in {{}} \cup {{DEFAULT_KEY_PREFIX \o p} : p \in GrpPrefixes \ {<<>>}} :
          lib = Called("input", <<prefix, GrpStorage(<<>>, keyThrows, removeThrows)>>, <<>>)

NextGroup ==
    \/ GrpSetItem
    \/ ClearGroup
    \/ GetGroupKeys
    \/ HasGroupData

SpecGroup == InitGroup /\ [][NextGroup]_vars

\* ================================================================ two tabs
\* Two documents render useFormPersist(key, initialState, {sync: true}) over
\* one localStorage. The first tab is the instance above; `peer` is the
\* instance of the second tab: [sync, state, listeners, seen], where `seen`
\* is the storage entry as of the last storage event its window received.

\* the options both tabs pass
Synced == [History EXCEPT !.toggle = FALSE]

\* the window and channel listeners useFormPersist registers for its
\* options: `sync` is not among the options the hook destructures, it
\* builds no SyncManager and adds no listener
hookListeners(syncOption) == {}

\* the second tab once its first render and its load have completed
PeerMount(syncOption, stored) ==
    [sync |-> syncOption, state |-> initialState,
     listeners |-> hookListeners(syncOption), seen |-> stored]

\* a listener taking the data of the item written as the state
Adopt(current, item) ==
    [k \in DOMAIN current |->
        IF k \in DOMAIN item.env.data THEN item.env.data[k] ELSE current[k]]

\* the browser delivers the storage event of a write to the window of the
\* second tab, where the listeners for it run
PeerStorageEvent ==
    /\ peer.seen # storage
    /\ peer' = [peer EXCEPT
                  !.seen = storage,
                  !.state = IF "storage" \in peer.listeners /\ storage # <<>>
                            THEN Adopt(@, storage[1]) ELSE @]
    /\ UNCHANGED <<now, ctl, trace, instVars, hm, sm, lib>>

InitTabs ==
    /\ Mount(Synced, TRUE, <<>>)
    /\ peer = PeerMount(TRUE, <<>>)

NextTabs ==
    \/ SetStateEager
    \/ SetStateQueued
    \/ Render
    \/ LoadResolve
    \/ HookDebounceFire
    \/ HookTick
    \/ PeerStorageEvent

SpecTabs == InitTabs /\ [][NextTabs]_vars

\* renders, resolved promises, timers and storage events are not postponed
\* for ever
SpecTabsFair ==
    /\ SpecTabs
    /\ WF_vars(Render)
    /\ WF_vars(LoadResolve)
    /\ WF_vars(HookDebounceFire)
    /\ WF_vars(HookTick)
    /\ WF_vars(PeerStorageEvent)

\* ================================================================ editing only
\* The instance is enabled, never paused, never cleared and stays mounted;
\* every write succeeds and nothing is validated: the caller only edits.
InitEdits ==
    \E options \in Cfgs : \E stored \in Seeds :
        Mount([options EXCEPT !.toggle = FALSE], TRUE, stored) /\ NoPeer

NextEdits ==
    \/ SetStateEager
    \/ SetStateQueued
    \/ Undo
    \/ Redo
    \/ Render
    \/ LoadResolve
    \/ HookDebounceFire
    \/ HookThrottleFire
    \/ RetiredThrottleFire
    \/ HookTick

SpecEdits == InitEdits /\ [][NextEdits]_vars

\* ================================================================ useSync on two tabs
\* Two tabs render the documented usage of useSync:
\*     const { broadcast } = useSync(key, options, (data) => setFormData(data))
\*     useEffect(() => { broadcast(formData) }, [formData, broadcast])
\* `sm` is the first tab and `peer` the second: the SyncManager of the tab
\* (this, calls, posted), its formData, whether formData changed identity
\* since the effect last ran, the messages its channel has still to deliver,
\* whether the tab is mounted, and the number of local edits made in it.
UsMaxEdits == 1

\* the tab after useSync's first effect: with options.enabled it ran
\* new SyncManager(key, options) and onSync(onUpdate), without it
\* managerRef.current stays null (manager FALSE, nothing listens); the
\* broadcast effect of the mount is still to run
useSync(tabId, options, isEnabled, initial) ==
    [this |-> [SyncManager(SmKey, options, TRUE) EXCEPT
                 !.tabId = tabId, !.callback = <<"onUpdate">>,
                 !.channel = isEnabled, !.onmessage = isEnabled,
                 !.listening = isEnabled],
     manager |-> isEnabled,
     calls |-> <<>>, posted |-> <<>>,
     formData |-> initial, changed |-> TRUE, inbox |-> <<>>,
     mounted |-> TRUE, edits |-> 0]

\* a tab that is not open
NotOpen(options, isEnabled, initial) ==
    [useSync("tab2", options, isEnabled, initial) EXCEPT
        !.mounted = FALSE, !.changed = FALSE, !.this.onmessage = FALSE]

\* setFormData(data) for every invocation of onUpdate: the data of a message
\* is a copy, never the object the state holds, so the state changes identity
RECURSIVE onUpdate(_, _)
onUpdate(tab, calls) ==
    IF calls = <<>> THEN tab
    ELSE onUpdate(IF Head(calls).fn = "onUpdate" /\ Len(Head(calls).data) > 0
                  THEN [tab EXCEPT !.formData = Head(calls).data[1], !.changed = TRUE]
                  ELSE tab,
                  Tail(calls))

\* the effect [formData, broadcast] of a tab: broadcast(formData), which is
\* managerRef.current?.broadcast(data)
broadcastEffect(tab) ==
    LET cleared == [tab EXCEPT !.calls = <<>>, !.posted = <<>>, !.changed = FALSE]
    IN IF tab.manager
       THEN [broadcast(cleared, tab.formData) EXCEPT !.changed = FALSE]
       ELSE cleared

\* channel.onmessage of a tab for the oldest message it was sent
deliver(tab) ==
    LET handled == handleBroadcastMessage(
                       [tab EXCEPT !.calls = <<>>, !.posted = <<>>,
                                   !.inbox = Tail(@)],
                       Head(tab.inbox))
    IN onUpdate(handled, handled.calls)

\* the BroadcastChannel hands the messages posted to the other open tab
receive(tab, posted) ==
    IF tab.mounted /\ tab.this.onmessage THEN [tab EXCEPT !.inbox = @ \o posted]
    ELSE tab

UsRest == UNCHANGED <<now, ctl, trace, instVars, hm, lib>>

\* the second tab is opened
UsMount ==
    /\ ~peer.mounted
    /\ peer' = useSync("tab2", peer.this.options, peer.manager, peer.formData)
    /\ UNCHANGED sm
    /\ UsRest

\* the user edits the form in the first tab
UsEdit ==
    /\ sm.edits < UsMaxEdits
    /\ \E d \in SmData \ {sm.formData} :
         sm' = [sm EXCEPT !.formData = d, !.changed = TRUE, !.edits = @ + 1]
    /\ UNCHANGED peer
    /\ UsRest

\* the broadcast effect of the first tab runs
UsEffect ==
    /\ sm.mounted /\ sm.changed
    /\ sm' = broadcastEffect(sm)
    /\ peer' = receive(peer, sm'.posted)
    /\ UsRest

UsPeerEffect ==
    /\ peer.mounted /\ peer.changed
    /\ peer' = broadcastEffect(peer)
    /\ sm' = receive(sm, peer'.posted)
    /\ UsRest

\* a message reaches the first tab
UsDeliver ==
    /\ Len(sm.inbox) > 0
    /\ sm' = deliver(sm)
    /\ UNCHANGED peer
    /\ UsRest

UsPeerDeliver ==
    /\ Len(peer.inbox) > 0
    /\ peer' = deliver(peer)
    /\ UNCHANGED sm
    /\ UsRest

InitUseSync ==
    /\ now = Epoch
    /\ trace = <<>>
    /\ ctl = createSaveController(1, 0)
    /\ NoHook
    /\ NoHistory
    /\ NoLib
    /\ \E strategy \in SmStrategies : \E conflictResolver \in BOOLEAN :
       \E isEnabled \in BOOLEAN : \E initial \in SmData :
          LET options == SyncOptions(strategy, conflictResolver, FALSE) IN
          /\ sm = useSync(SmTabId, options, isEnabled, initial)
          /\ peer = NotOpen(options, isEnabled, initial)

NextUseSync ==
    \/ UsMount
    \/ UsEdit
    \/ UsEffect
    \/ UsPeerEffect
    \/ UsDeliver
    \/ UsPeerDeliver

SpecUseSync == InitUseSync /\ [][NextUseSync]_vars

\* effects run and messages are delivered
SpecUseSyncFair ==
    /\ SpecUseSync
    /\ WF_vars(UsEffect)
    /\ WF_vars(UsPeerEffect)
    /\ WF_vars(UsDeliver)
    /\ WF_vars(UsPeerDeliver)

\* ------------------------------------------------ scheduler properties
IsEv(i, ev) == i \in 1..Len(trace) /\ trace[i].ev = ev

IsExecBy(i, by) == IsEv(i, "exec") /\ trace[i].by = by

CallIdx == {i \in 1..Len(trace) : trace[i].ev = "call"}

ExecIdx == {i \in 1..Len(trace) : trace[i].ev = "exec"}

Undisturbed == Count("cancel") = 0 /\ Count("flush") = 0

\* time of the last callback execution before position i (0: none yet,
\* the initial lastCall)
PrevExecT(i) ==
    LET E == {j \in ExecIdx : j < i} IN
    IF E = {} THEN 0
    ELSE trace[CHOOSE j \in E : \A k \in E : k <= j].t

\* the latest call before position i
PrevCall(i) ==
    LET C == {j \in CallIdx : j < i} IN
    CHOOSE j \in C : \A k \in C : k <= j

\* consecutive calls are less than `gap` apart
CallsCloserThan(gap) ==
    \A i \in CallIdx : \A j \in CallIdx :
        (i < j /\ \A k \in CallIdx : ~(i < k /\ k < j)) => trace[j].t - trace[i].t < gap

FirstCallT == trace[CHOOSE i \in CallIdx : \A k \in CallIdx : i <= k].t

LastCallT == trace[CHOOSE i \in CallIdx : \A k \in CallIdx : k <= i].t

LastExecT == PrevExecT(Len(trace) + 1)

\* C1: createDebouncedFn - a burst of calls, each less than `wait` ms after
\* the previous one and with no cancel() or flush() in between, ends in
\* exactly one callback invocation, `wait` ms after the last call of the
\* burst and with that call's arguments: every call is followed by a closer
\* call, by a cancel/flush, or by the timer's invocation at t + wait with
\* its arguments (or is still pending before t + wait), and the timer never
\* invokes the callback except right after such a call.
C1_DebounceBurst ==
    \A i \in 1..Len(trace) :
        /\ IsEv(i, "call") =>
             IF i = Len(trace)
             THEN now <= trace[i].t + ctl.wait /\ debouncePending(ctl)
             ELSE \/ IsEv(i + 1, "call") /\ trace[i + 1].t < trace[i].t + ctl.wait
                  \/ IsEv(i + 1, "cancel")
                  \/ IsEv(i + 1, "flush")
                  \/ /\ IsExecBy(i + 1, "debounce")
                     /\ trace[i + 1].t = trace[i].t + ctl.wait
                     /\ trace[i + 1].a = trace[i].a
        /\ IsExecBy(i, "debounce") => IsEv(i - 1, "call")

C1_Witness ==
    \E i \in 1..Len(trace) :
        /\ IsEv(i, "call") /\ IsEv(i + 1, "call") /\ IsExecBy(i + 2, "debounce")
        /\ trace[i].a # trace[i + 1].a
        /\ trace[i].t < trace[i + 1].t

SingleBurst ==
    /\ ctl.interval > 0
    /\ Undisturbed
    /\ CallIdx # {}
    /\ CallsCloserThan(ctl.wait)
    /\ LastCallT < FirstCallT + ctl.interval

ExecsBy(by) == Cardinality({i \in ExecIdx : trace[i].by = by})

ContinuousInput(gap) ==
    /\ ctl.interval > 0
    /\ Undisturbed
    /\ CallIdx # {}
    /\ CallsCloserThan(gap)
    /\ now - LastCallT < gap

\* every span of `interval` ms since the first call holds an execution,
\* and every execution carries the latest arguments seen so far
ExecutedEveryInterval ==
    /\ \A i \in ExecIdx : trace[i].t - PrevExecT(i) <= ctl.interval \/ PrevExecT(i) = 0
    /\ ExecIdx # {}
    /\ trace[CHOOSE i \in ExecIdx : \A k \in ExecIdx : i <= k].t = FirstCallT
    /\ now - LastExecT <= ctl.interval
    /\ \A i \in ExecIdx : trace[i].a = trace[PrevCall(i)].a

\* C9 as stated: under continuous input (calls less than the debounce wait
\* apart) the callback runs at least once in every span of throttleInterval
\* ms, each time with the latest arguments.
C9_EveryInterval == ContinuousInput(ctl.wait) => ExecutedEveryInterval

\* C9 amended: the same, for input whose calls arrive less than the debounce
\* wait apart and no more than throttleInterval apart.
C9_EveryIntervalDense ==
    ContinuousInput(Min(ctl.wait, ctl.interval + 1)) => ExecutedEveryInterval

C9_Witness ==
    /\ ContinuousInput(Min(ctl.wait, ctl.interval + 1))
    /\ ExecsBy("leading") >= 1 /\ ExecsBy("trailing") >= 1
    /\ Count("call") >= 3
    /\ now - FirstCallT > ctl.interval

\* ================================================================ hook properties
\* the data of the envelope in storage, <<>> when the key is absent
StoredData == IF Len(storage) = 0 THEN <<>> ELSE <<storage[1].env.data>>

\* persistence is on as far as the caller can tell: the `enabled` option is
\* true, pause() has not been called since the last resume(), and the
\* committed render agrees
PersistenceOn ==
    /\ enabled
    /\ cb.enabled
    /\ ~isPaused
    /\ ~cb.isPaused
    /\ ~obs.pauseCalled

\* C2: when the component unmounts while a debounced save is pending
\* (persistence enabled, not paused), the stored data after the unmount is
\* what saveToStorage makes of the last value passed to the setter.
C2_UnmountKeepsLastEdit ==
    [][(Unmount /\ pending(ctl) /\ PersistenceOn /\ Len(obs.lastSet) > 0)
          => StoredData' = <<Persisted(obs.lastSet[1])>>]_vars

\* C3: with a non-empty exclude list, in every reachable state the data
\* last written by this instance and the data in storage hold none of the
\* excluded keys, while the value handed to the write and the live state
\* still hold them.
C3_ExcludedNeverStored ==
    /\ Cardinality(cfg.exclude) > 0
    /\ \A i \in 1..Len(obs.lastWrite) :
         /\ DOMAIN obs.lastWrite[i].data \cap cfg.exclude = {}
         /\ cfg.exclude \subseteq DOMAIN obs.lastWrite[i].arg
    /\ \A i \in 1..Len(StoredData) : DOMAIN StoredData[i] \cap cfg.exclude = {}
    /\ cfg.exclude \subseteq DOMAIN state
    /\ cfg.exclude \subseteq DOMAIN stateRef

C3_Witness ==
    /\ Len(obs.lastWrite) > 0
    /\ obs.lastWrite[1].arg["pw"] = "s"
    /\ StoredData = <<obs.lastWrite[1].data>>
    /\ "pw" \notin DOMAIN StoredData[1]
    /\ state["pw"] = "s"

\* the first mount found an envelope, the load has resolved and the
\* restored state has been rendered, and the caller has done nothing yet
RestoredOnMount ==
    /\ Mounted
    /\ Len(obs.onRestore) > 0
    /\ Len(load) = 0
    /\ Len(queue) = 0
    /\ obs.nOps = 0

MigratedSeed ==
    migrateData(SeedData, Seed(Null).env.version, cfg.version, cfg.migrate)[1]

\* C4: once the load of a valid, unexpired envelope found at the first
\* mount has resolved, the state is the merge of the migrated stored data
\* and the initial state under the configured strategy (shallow: stored
\* keys override, initial-only keys are kept), isRestored and isPersisted
\* are true, the history is the single restored state at index 0, and
\* onRestore was called once with that state.
C4_RestoreOnMount ==
    RestoredOnMount =>
        /\ state = mergeFn(cfg.merge, MigratedSeed, initialState)
        /\ cfg.merge = "shallow" =>
             /\ DOMAIN state = DOMAIN MigratedSeed \cup DOMAIN initialState
             /\ \A k \in DOMAIN MigratedSeed : state[k] = MigratedSeed[k]
             /\ \A k \in DOMAIN initialState \ DOMAIN MigratedSeed :
                  state[k] = initialState[k]
        /\ isRestored
        /\ isPersisted
        /\ history = <<state>>
        /\ historyIndex = 0
        /\ obs.onRestore = <<state>>

C4_Witness ==
    /\ RestoredOnMount
    /\ cfg.merge = "shallow"
    /\ state = [name |-> "J", old |-> "x", email |-> "e", pw |-> ""]
    /\ isRestored

\* C5: when persistence is enabled and not paused, right after forceSave()
\* the stored data is what saveToStorage makes of the most recent value
\* passed to the setter, whether or not a render happened in between.
C5_ForceSaveWritesLastEdit ==
    [][(ForceSave /\ PersistenceOn /\ Len(obs.lastSet) > 0)
          => StoredData' = <<Persisted(obs.lastSet[1])>>]_vars

\* C6: no write reaches storage between pause() and resume().
C6_NoWriteWhilePaused == ~obs.wrotePaused

\* C7: no write reaches storage while the `enabled` option is false.
C7_NoWriteWhileDisabled == ~obs.wroteDisabled

\* ================================================================ HistoryManager properties
\* C20: for maxLength >= 1, after any sequence of push, undo, redo, goTo
\* (any integer) and reset, 1 <= length <= maxLength and
\* 0 <= index <= length - 1, so current is a stored entry, canUndo is
\* index > 0 and canRedo is index < length - 1.
C20_HistoryBounds ==
    hm.maxLength >= 1 =>
        /\ 1 <= hmLength(hm) /\ hmLength(hm) <= hm.maxLength
        /\ 0 <= hmIndex(hm) /\ hmIndex(hm) <= hmLength(hm) - 1
        /\ Len(hmCurrent(hm)) = 1
        /\ hmCurrent(hm)[1] \in HmVals
        /\ hmCanUndo(hm) <=> hm.index > 0
        /\ hmCanRedo(hm) <=> hm.index < Len(hm.states) - 1

\* a full history standing at its oldest entry
C20_Witness ==
    /\ hm.maxLength = HmMaxLength
    /\ hmLength(hm) = hm.maxLength
    /\ hmIndex(hm) = 0
    /\ hmCanRedo(hm)
    /\ ~hmCanUndo(hm)

\* ================================================================ hook properties: failures
\* queued updates of the persistence bookkeeping, and of the state and
\* its history
IsBook(e) == e.op \in {"isPersisted", "lastSaved", "size"}

IsLive(e) ==
    e.op \in {"state", "setter", "history", "historyIndex", "historyPush",
              "historyIndexInc"}

\* n copies of x
Copies(n, x) == [i \in 1..n |-> x]

\* the type each thrown error is to be reported with
Classified(error) ==
    CASE error = QuotaError -> "QUOTA_EXCEEDED"
      [] error = FullError -> "QUOTA_EXCEEDED"
      [] error = DeniedError -> "UNKNOWN"

\* a step in which storage.setItem threw
SaveFailed == Len(cfg.setItem) > 0 /\ Len(obs'.errors) > Len(obs.errors)

\* C11: when storage.setItem throws during a save, onError gets the
\* classified type, onStorageFull is called as well exactly for
\* QUOTA_EXCEEDED and STORAGE_FULL, storage is unchanged, no update of
\* isPersisted, lastSaved or size is dispatched, and the state and history
\* are what the caller set: a timer or forceSave dispatches nothing, a
\* setter call dispatches the value passed and nothing after it.
C11_SaveFailureKeepsState ==
    [][SaveFailed =>
        LET type == Classified(cfg.setItem[1])
            n == Len(obs'.errors) - Len(obs.errors)
        IN /\ obs'.errors = obs.errors \o Copies(n, type)
           /\ obs'.storageFull = obs.storageFull \o
                 (IF type \in {"QUOTA_EXCEEDED", "STORAGE_FULL"}
                  THEN Copies(n, type) ELSE <<>>)
           /\ storage' = storage
           /\ Mounted' /\ ~Render =>
                 /\ SelectSeq(queue', IsBook) = SelectSeq(queue, IsBook)
                 /\ UNCHANGED <<state, history, historyIndex, isPersisted,
                                lastSaved, size>>
           /\ (HookDebounceFire \/ HookThrottleFire \/ RetiredThrottleFire \/ ForceSave)
                 => queue' = queue
           /\ SetStateEager =>
                 LET live == SelectSeq(queue', IsLive)
                 IN live[Len(live)] = Upd("state", obs'.lastSet[1])]_vars

\* a save of the value the caller set has failed with a full storage
C11_Witness ==
    /\ Len(cfg.setItem) > 0
    /\ Len(obs.storageFull) > 0
    /\ obs.errors = obs.storageFull
    /\ Len(queue) = 0
    /\ Len(obs.lastSet) > 0
    /\ state = obs.lastSet[1]
    /\ ~isPersisted
    /\ Len(storage) = 0

\* what the load found at mount: a value that cannot be parsed, one that
\* fails the structure check, an envelope whose migration throws
Unparsable(raw) == Len(raw) > 0 /\ raw[1].kind # "json"

Malformed(raw) == Len(raw) > 0 /\ raw[1].kind = "json" /\ ~raw[1].shape

WellFormed(raw) == Len(raw) > 0 /\ raw[1].kind = "json" /\ raw[1].shape

\* expired at time t
StaleAt(raw, t) ==
    /\ WellFormed(raw)
    /\ raw[1].env.expiresAt # Null
    /\ raw[1].env.expiresAt < t

Stale(raw) == StaleAt(raw, now)

MigrationThrows(raw) ==
    /\ WellFormed(raw)
    /\ ~Stale(raw)
    /\ raw[1].env.version < cfg.version
    /\ cfg.migrate = "throws"

LoadFails(raw) == Unparsable(raw) \/ Malformed(raw) \/ MigrationThrows(raw)

\* the caller has not touched the state since the mount
Untouched == ~obs.edited /\ Len(queue) = 0

\* C12: when the stored value cannot be deserialized, fails the structure
\* check, or its migration throws, the load dispatches nothing, does not
\* call onRestore and reports through onError alone (CORRUPTED_DATA,
\* CORRUPTED_DATA, MIGRATION_FAILED); as long as the caller sets nothing,
\* the state is the initial state and isRestored is false.
C12_LoadFailureFallsBack ==
    /\ [][(LoadResolve /\ LoadFails(load[1])) =>
             /\ queue' = queue
             /\ obs'.onRestore = obs.onRestore
             /\ obs'.storageFull = obs.storageFull
             /\ obs'.errors = Append(obs.errors,
                                     IF MigrationThrows(load[1])
                                     THEN "MIGRATION_FAILED"
                                     ELSE "CORRUPTED_DATA")
             /\ UNCHANGED <<state, isRestored, history, historyIndex, storage>>]_vars
    /\ []((LoadFails(obs.found) /\ Len(load) = 0 /\ Untouched) =>
             /\ state = initialState
             /\ ~isRestored
             /\ obs.onRestore = <<>>)

\* the migration of the stored envelope has thrown
C12_Witness ==
    /\ obs.errors = <<"MIGRATION_FAILED">>
    /\ obs.found = <<Seed(Null)>>
    /\ storage = obs.found
    /\ Len(load) = 0
    /\ state = initialState
    /\ ~isRestored
    /\ obs.onRestore = <<>>

\* C13: when the stored envelope's expiresAt is earlier than the current
\* time, the load removes the key, dispatches nothing and calls neither
\* onRestore nor onError; as long as the caller sets nothing, the state is
\* the initial state and isRestored is false.
C13_ExpiredIsDropped ==
    /\ [][(LoadResolve /\ Stale(load[1])) =>
             /\ storage' = <<>>
             /\ queue' = queue
             /\ obs'.onRestore = obs.onRestore
             /\ obs'.errors = obs.errors
             /\ UNCHANGED <<state, isRestored, history, historyIndex>>]_vars
    /\ []((StaleAt(obs.found, HookEpoch) /\ Len(load) = 0 /\ Untouched) =>
             /\ state = initialState
             /\ ~isRestored
             /\ obs.onRestore = <<>>)

\* the expired envelope found at mount has been removed
C13_Witness ==
    /\ obs.found = <<Seed(HookEpoch - 1)>>
    /\ Len(load) = 0
    /\ Len(storage) = 0
    /\ obs.lastOp = "mount"
    /\ state = initialState
    /\ ~isRestored
    /\ obs.errors = <<>>

\* the caller's validate hook returns false for v or throws
Rejected(v) ==
    \/ cfg.validate = "throws"
    \/ cfg.validate = "fn" /\ v["name"] = ""

\* a timer or forceSave hands only rejected data to saveToStorage
SavesRejected ==
    \/ HookDebounceFire /\ Rejected(ctl.dLastArgs[1])
    \/ HookThrottleFire /\ Rejected(ctl.tLastArgs[1])
    \/ /\ ForceSave
       /\ Rejected(stateRef)
       /\ debouncePending(ctl) => Rejected(ctl.dLastArgs[1])

\* C14: when validate returns false or throws for the data about to be
\* saved, the write is skipped: storage, isPersisted, lastSaved and size
\* are unchanged and no update of them is dispatched, onError and
\* onStorageFull are not called, and the state is unaffected; with a
\* validate that always throws nothing is ever written.
C14_RejectedIsSkipped ==
    /\ [][SavesRejected =>
             /\ UNCHANGED <<storage, queue, state, history, historyIndex,
                            isPersisted, lastSaved, size>>
             /\ obs'.errors = obs.errors
             /\ obs'.storageFull = obs.storageFull
             /\ obs'.lastWrite = obs.lastWrite]_vars
    /\ [](cfg.validate = "throws" =>
             /\ obs.lastWrite = <<>>
             /\ obs.errors = <<>>
             /\ storage \in {obs.found, <<>>})

\* forceSave has been called, unpaused, with the rejected initial state
C14_Witness ==
    /\ cfg.validate = "fn"
    /\ obs.lastOp = "forceSave"
    /\ ~obs.pauseCalled
    /\ ~isPaused
    /\ stateRef["name"] = ""
    /\ obs.lastWrite = <<>>
    /\ Len(storage) = 0
    /\ ~isPersisted
    /\ Len(queue) = 0
    /\ obs.errors = <<>>

\* ================================================================ hook properties: actions
\* everything of the instance but the observer
Program ==
    <<ctl, phase, enabled, state, isPersisted, isRestored, lastSaved, isPaused,
      size, history, historyIndex, stateRef, isMountedRef, queue, storage, cb,
      retired, load>>

\* the bookkeeping updates of a cleared key
Cleared == <<Upd("isPersisted", FALSE), Upd("lastSaved", Null), Upd("size", 0)>>

\* the stored envelope's data if load would accept the envelope now
Acceptable ==
    IF WellFormed(storage) /\ ~Stale(storage) THEN <<storage[1].env.data>>
    ELSE <<>>

C16_ResetRestoresInitial ==
    /\ [][Reset =>
             /\ storage' = <<>>
             /\ SubSeq(queue', Len(queue') - 2, Len(queue')) = Cleared]_vars
    /\ []((obs.lastOp = "reset" /\ Mounted /\ Len(queue) = 0) =>
             /\ state = initialState
             /\ history = <<initialState>>
             /\ historyIndex = 0
             /\ ~canUndo
             /\ ~canRedo)

C19_IsPersistedMatchesStorage ==
    (Mounted /\ isMountedRef /\ Len(load) = 0 /\ Len(queue) = 0) =>
        (isPersisted <=> Len(storage) > 0)

\* ================================================================ HistoryManager properties: push
\* the entries up to and including the current one
UpToCurrent(h) == Slice(h.states, h.index + 1)

\* the last call was a push
JustPushed == Len(trace) = 1 /\ trace[1].ev = "push"

\* push(s) leaves the entries up to the old index (less the oldest when
\* trimmed) followed by s, standing at s with nothing to redo
PushTruncates ==
    HmPush =>
        LET s == trace'[1].arg IN
        /\ hm'.states \in {UpToCurrent(hm) \o <<s>>, Tail(UpToCurrent(hm) \o <<s>>)}
        /\ hmCurrent(hm') = <<s>>
        /\ hmIndex(hm') = hmLength(hm') - 1
        /\ ~hmCanRedo(hm')

\* C21 (as stated): push(s) drops the entries after the old index and
\* stands at s with canRedo false; an undo() right after a push makes
\* canRedo true, whatever maxLength is.
C21_UndoAfterPushCanRedo ==
    /\ [][PushTruncates]_vars
    /\ [][(HmUndo /\ JustPushed) => hmCanRedo(hm')]_vars

\* C21 (amended): push(s) drops the entries after the old index and stands
\* at s with canRedo false; with maxLength at least 2, an undo() right
\* after a push makes canRedo true, and the next push makes it false again.
C21_PushInvalidatesRedo ==
    /\ [][PushTruncates]_vars
    /\ [][(HmUndo /\ JustPushed /\ hm.maxLength >= 2) => hmCanRedo(hm')]_vars
    /\ [](JustPushed => ~hmCanRedo(hm))

\* a push made from the middle of a longer history: the forward entries
\* are gone
C21_Witness ==
    /\ JustPushed
    /\ hm.maxLength = HmMaxLength
    /\ hmLength(hm) = 2
    /\ hmIndex(hm) = 1
    /\ hm.states[1] # hm.states[2]
    /\ ~hmCanRedo(hm)
    /\ hmCanUndo(hm)

\* C22 (as stated): a push when length equals maxLength drops the entry at
\* position 0, keeps the others in order, ends with the pushed state and
\* keeps length at maxLength.
C22_FullPushDropsOldest ==
    [][(HmPush /\ hmLength(hm) = hm.maxLength) =>
          /\ hm'.states = Tail(hm.states) \o <<trace'[1].arg>>
          /\ hmLength(hm') = hm.maxLength]_vars

\* C22 (amended): a push when length equals maxLength and the current
\* entry is the newest drops the entry at position 0, keeps the others in
\* order, ends with the pushed state and keeps length at maxLength.
C22_FullPushAtEndDropsOldest ==
    [][(HmPush /\ hmLength(hm) = hm.maxLength /\ ~hmCanRedo(hm)) =>
          /\ hm'.states = Tail(hm.states) \o <<trace'[1].arg>>
          /\ hmLength(hm') = hm.maxLength]_vars

\* a full history of distinct entries after a push
C22_Witness ==
    /\ JustPushed
    /\ hm.maxLength = HmMaxLength
    /\ hmLength(hm) = HmMaxLength
    /\ hmIndex(hm) = HmMaxLength - 1
    /\ hm.states[HmMaxLength] = trace[1].arg
    /\ \A i, j \in 1..HmMaxLength : i # j => hm.states[i] # hm.states[j]

\* ================================================================ SyncManager properties
\* the last step was the delivery of a message / of a storage event
GotMessage == sm.ev = "message"

GotStorage == sm.ev = "storage"

\* what an accepted update must invoke: the registered callback, then the
\* onSync hook, each once, with the data as received
Forwarded(data, source) ==
    (IF Len(sm.this.callback) > 0
     THEN <<Invoked(sm.this.callback[1], <<data>>, source)>> ELSE <<>>)
    \o (IF sm.this.options.onSync
        THEN <<Invoked("options.onSync", <<data>>, source)>> ELSE <<>>)

\* C23: a message carrying the instance's own tabId or another key, and a
\* storage event for another key, invoke neither the registered callback
\* nor the onSync hook.
C23_SelfAndForeignIgnored ==
    /\ (GotMessage /\ (sm.arg.tabId = sm.this.tabId \/ sm.arg.key # sm.this.key))
          => sm.calls = <<>>
    /\ (GotStorage /\ sm.arg.key # sm.this.key) => sm.calls = <<>>

\* the instance's own update for its own key came back and was dropped
C23_Witness ==
    /\ GotMessage
    /\ sm.arg.tabId = sm.this.tabId
    /\ sm.arg.key = sm.this.key
    /\ sm.arg.type = "update"
    /\ Len(sm.arg.data) > 0
    /\ ~sm.this.isDestroyed
    /\ Len(sm.this.callback) > 0
    /\ sm.this.options.onSync
    /\ sm.calls = <<>>

\* C24: a storage event for the key with newValue = null, and a `clear`
\* message from another tab, invoke the callback registered through
\* onSync(callback) with an undefined payload and the matching source.
C24_ClearReachesCallback ==
    /\ (GotStorage /\ sm.arg.key = sm.this.key /\ Len(sm.arg.newValue) = 0
        /\ ~sm.this.isDestroyed /\ Len(sm.this.callback) > 0)
          => \E i \in 1..Len(sm.calls) :
                sm.calls[i] = Invoked(sm.this.callback[1], <<>>, "storage")
    /\ (GotMessage /\ sm.arg.key = sm.this.key /\ sm.arg.tabId # sm.this.tabId
        /\ sm.arg.type = "clear"
        /\ ~sm.this.isDestroyed /\ Len(sm.this.callback) > 0)
          => \E i \in 1..Len(sm.calls) :
                sm.calls[i] = Invoked(sm.this.callback[1], <<>>, "broadcast")

C26_DestroyIdempotent ==
    /\ [][SmDestroy => sm'.this = destroy(destroy(sm)).this]_vars
    /\ [][(SmDestroy /\ sm.ev = "destroy") => sm'.this = sm.this]_vars
    /\ [](sm.destroyCalled => sm.calls = <<>> /\ sm.posted = <<>>)

\* a storage update for the key reaches a destroyed instance whose hook
\* and channel were in use
C26_Witness ==
    /\ sm.destroyCalled
    /\ sm.this.isDestroyed
    /\ GotStorage
    /\ sm.arg.key = sm.this.key
    /\ Len(sm.arg.newValue) > 0
    /\ HasData(sm.arg.newValue[1])
    /\ sm.this.options.onSync
    /\ sm.this.onmessage
    /\ sm.this.listening
    /\ sm.calls = <<>>

\* ================================================================ deepMerge properties
\* the key paths of a value
RECURSIVE Paths(_)
Paths(value) ==
    IF ~isPlainObject(value) THEN {<<>>}
    ELSE {<<>>} \cup UNION {{<<key>> \o p : p \in Paths(value.f[key])} :
                               key \in ObjectKeys(value)}

\* the value at a path that exists
RECURSIVE ValueAt(_, _)
ValueAt(value, path) == IF path = <<>> THEN value ELSE ValueAt(value.f[Head(path)], Tail(path))

Dangerous(path) == \E i \in 1..Len(path) : path[i] \in dangerousKeys

\* the leaves of a value
LeafPaths(value) == {p \in Paths(value) : ~isPlainObject(ValueAt(value, p))}

Merged == lib.fn = "deepMerge"

\* C28: whatever stored holds, a key `__proto__`, `constructor` or
\* `prototype` is on a path of the merged result only if initial has that
\* path; every other leaf of stored is in the result, and a key only
\* initial has keeps initial's value.
C28_NoDangerousKeyFromStored ==
    Merged =>
        LET stored == lib.args[1]
            initial == lib.args[2]
            result == lib.ret[1]
        IN /\ \A p \in Paths(result) : Dangerous(p) => p \in Paths(initial)
           /\ \A p \in LeafPaths(stored) :
                 ~Dangerous(p) => p \in Paths(result) /\ ValueAt(result, p) = ValueAt(stored, p)
           /\ \A key \in ObjectKeys(initial) \ ObjectKeys(stored) :
                 result.f[key] = initial.f[key]

\* ================================================================ transform properties
Serialized == lib.fn = "serialize"

Deserialized == lib.fn = "deserialize"

\* the serialized text was compressed
Compressed(text) == Len(text) > 0 /\ text[1] = 1

\* C29: deserialize(serialize(x)) = x for every compression and
\* obfuscation setting, and simpleDecompress(simpleCompress(s)) = s for the
\* JSON text s of every x, compressed or not.
C29_RoundTrip ==
    /\ Deserialized => lib.ret = <<lib.args[2]>>
    /\ Serialized =>
          LET s == defaultSerialize(lib.args[2]) IN
          /\ simpleDecompress(simpleCompress(s)) = <<s>>
          /\ base64Decode(base64Encode(simpleCompress(s))) = simpleCompress(s)

\* a value with a run of at most 4 and a run of more than 255 came back
\* from its compressed and obfuscated form
C29_Witness ==
    /\ Deserialized
    /\ lib.args[1].shouldCompress
    /\ lib.args[1].encrypt
    /\ Compressed(base64Decode(lib.args[3]))
    /\ Len(lib.args[3]) < 100
    /\ lib.ret = <<lib.args[2]>>
    /\ \E i \in 1..Len(lib.args[2]) : lib.args[2][i].n > 255
    /\ \E i \in 1..Len(lib.args[2]) : lib.args[2][i].n <= 4

\* ================================================================ clearGroup properties
GroupCleared == lib.fn \in {"clearGroup", "getGroupKeys", "hasGroupData"}

\* the entries whose key starts with 'rfp:' + prefix
InGroup(entry, prefix) == startsWith(entry.key, DEFAULT_KEY_PREFIX \o prefix)

\* C30: clearGroup returns 0 when enumerating the storage throws;
\* otherwise it removes exactly the entries whose key starts with
\* 'rfp:' + prefix, leaves the other entries as they were, returns the
\* number of entries removed, and getGroupKeys is empty and hasGroupData
\* false afterwards.
C30_ClearGroupRemovesPrefix ==
    GroupCleared =>
        LET prefix == lib.args[1]
            before == lib.args[2]
            count == lib.ret[1]
            after == lib.ret[2]
        IN IF KeyThrew(before) THEN count = 0
           ELSE /\ after.items = SelectSeq(before.items, LAMBDA e : ~InGroup(e, prefix))
                /\ count = Len(before.items) - Len(after.items)
                /\ getGroupKeys(prefix, after) = <<>>
                /\ ~hasGroupData(prefix, after)
                /\ lib.fn = "hasGroupData" => lib.ret[3] = <<>> /\ ~lib.ret[4]

\* ================================================================ two tabs properties
\* the storage entry holds the data d
Stored(d) == storage # <<>> /\ storage[1].env.data = d

\* the state of the second tab shows the data d
PeerShows(d) == \A k \in DOMAIN d : peer.state[k] = d[k]

\* C27: with `sync` enabled in both tabs, a value set through the setter of
\* the first tab, once it is persisted, eventually is the state of the second
\* tab, without any call in the second tab (unless a later write replaced it
\* or the first tab still has a save or a state update outstanding)
C27_ChangeReachesPeer ==
    \A v \in Inputs :
        (peer.sync /\ Stored(Persisted(v)))
            ~> \/ PeerShows(Persisted(v))
               \/ ~Stored(Persisted(v))
               \/ pending(ctl) \/ Len(queue) > 0 \/ Len(load) > 0

\* ================================================================ hook properties: quiescence
\* every timer of every controller has fired, every dispatched update has
\* been rendered and no load is in flight
Settled ==
    /\ ctl.dTimeout = NoTimer /\ ctl.tTimeout = NoTimer
    /\ retired = <<>>
    /\ Len(queue) = 0
    /\ Len(load) = 0

\* C31: when clear() or reset() was the last call made (a save of an earlier
\* setter call possibly still pending), then once all timers have fired the
\* key is absent from storage and isPersisted is false
C31_ClearedStaysCleared ==
    (obs.lastOp \in {"clear", "reset"} /\ Settled) => (storage = <<>> /\ ~isPersisted)

\* the storage entry holds what saveToStorage makes of the live state
StoredIsLive == storage # <<>> /\ storage[1].env.data = Persisted(state)

\* C32: enabled, never paused, every write succeeding, nothing stored at
\* mount: once the setter, undo and redo calls have stopped, every update is
\* rendered and every timer has fired, the stored envelope's data is the live
\* state after beforePersist and exclusion, with and without throttle
C32_LastWriteIsLatest ==
    (obs.found = <<>> /\ obs.edited /\ Settled) => StoredIsLive

\* ================================================================ hook properties: load
\* C33: a value passed to the setter, as the last call made, is the live
\* state once the initial load has resolved and every update is rendered,
\* also when the call was made while the load was in flight
C33_EditSurvivesLoad ==
    (obs.lastOp = "setState" /\ Len(load) = 0 /\ Len(queue) = 0) =>
        state = obs.lastInput[1]

\* ================================================================ hook properties: history
\* C34: with history enabled, whenever every update is rendered,
\* 0 <= historyIndex <= length - 1, length <= maxHistory and the live state
\* is the history entry at historyIndex
C34_HistoryTracksState ==
    (cfg.history /\ Len(queue) = 0) =>
        /\ 0 <= historyIndex
        /\ historyIndex <= Len(history) - 1
        /\ Len(history) <= MaxHistory
        /\ state = At(history, historyIndex)

\* ================================================================ hook properties: unmount
\* C35: once the component has unmounted and the unmount flush has run, no
\* step writes to storage: no timer of any controller of the instance saves
C35_NoWriteAfterUnmount ==
    [][phase = "unmounted" => storage' = storage]_vars

\* ================================================================ scheduler properties: consumption
\* C36: createDebouncedFn - the callback is invoked only by the timer right
\* after the call it serves, or by flush() right after a pending call, each
\* time with that call's arguments, so a call is consumed at most once;
\* flush() with a call pending invokes at once, flush() with nothing pending
\* and cancel() invoke nothing and nothing is invoked after them before the
\* next call; pending() is true exactly while the latest call is unconsumed.
C36_PendingConsumedOnce ==
    /\ \A i \in 1..Len(trace) :
         /\ IsEv(i, "exec") => trace[i].by \in {"debounce", "flush"}
         /\ IsExecBy(i, "debounce") =>
              IsEv(i - 1, "call") /\ trace[i].a = trace[i - 1].a
         /\ IsExecBy(i, "flush") =>
              /\ IsEv(i - 1, "flush") /\ IsEv(i - 2, "call")
              /\ trace[i].a = trace[i - 2].a
              /\ trace[i].t = trace[i - 1].t
         /\ (IsEv(i, "flush") /\ IsEv(i - 1, "call")) => IsExecBy(i + 1, "flush")
         /\ (IsEv(i, "flush") /\ ~IsEv(i - 1, "call")) => ~IsEv(i + 1, "exec")
         /\ IsEv(i, "cancel") => ~IsEv(i + 1, "exec")
    /\ debouncePending(ctl) <=> IsEv(Len(trace), "call")

\* a call was flushed, flush() was called again with nothing pending, and the
\* time at which the timer of the call would have fired has passed
C36_Witness ==
    /\ Len(trace) = 4
    /\ IsEv(1, "call") /\ IsEv(2, "flush") /\ IsExecBy(3, "flush") /\ IsEv(4, "flush")
    /\ now > trace[1].t + ctl.wait

\* C37: createThrottledFn - whatever the calls, the cancels and the timer
\* firings, two successive executions of the callback are at least
\* `interval` ms apart.
C37_ExecutionsSpaced ==
    \A i \in ExecIdx : \A j \in ExecIdx :
        i < j => trace[j].t - trace[i].t >= ctl.interval

\* a leading execution, a cancel(), a new call inside the interval and its
\* trailing execution
C37_Witness ==
    \E i \in ExecIdx : \E j \in ExecIdx : \E k \in 1..Len(trace) :
        /\ i < k /\ k < j
        /\ IsExecBy(i, "leading")
        /\ IsEv(k, "cancel")
        /\ IsEv(k + 1, "call")
        /\ IsExecBy(j, "trailing")
        /\ trace[j].t = trace[i].t + ctl.interval

\* ================================================================ HistoryManager properties: undo and redo
\* C38: undo() lowers index by one when index > 0 and redo() raises it by
\* one when index < length - 1; at the boundary each changes nothing; both
\* return the current entry and neither changes the stored states or
\* maxLength; undo() followed by redo() away from the boundary is back at
\* the same entry.
C38_UndoRedoMoveIndexOnly ==
    /\ [][HmUndo =>
            /\ hm' = IF hm.index > 0 THEN [hm EXCEPT !.index = hm.index - 1] ELSE hm
            /\ trace'[1].ret = hmCurrent(hm')]_vars
    /\ [][HmRedo =>
            /\ hm' = IF hm.index < Len(hm.states) - 1
                     THEN [hm EXCEPT !.index = hm.index + 1] ELSE hm
            /\ trace'[1].ret = hmCurrent(hm')]_vars
    /\ [](hm.index > 0 => hmRedo(hmUndo(hm)) = hm)

\* redo() has just moved from the first to the second of three entries
C38_Witness ==
    /\ Len(trace) = 1 /\ trace[1].ev = "redo"
    /\ Len(hm.states) = 3
    /\ hm.index = 1
    /\ trace[1].ret = <<hm.states[2]>>

\* ================================================================ hook properties: load once
\* C39: the load starts only in the effect run that finds isMountedRef
\* unset, the flag is never unset again, and onRestore (called together with
\* the dispatch of the restored state) has been called at most once,
\* whatever renders, option changes and storage writes follow.
C39_LoadRunsOnce ==
    /\ [][(load' # load /\ Len(load') > 0) => (~isMountedRef /\ isMountedRef')]_vars
    /\ [][isMountedRef => isMountedRef']_vars
    /\ [](Len(obs.onRestore) <= 1)

\* the stored data was restored, and the instance, whose options change
\* identity at every render, was later disabled and enabled again
C39_Witness ==
    /\ Len(obs.onRestore) = 1
    /\ isRestored
    /\ ~cfg.stable
    /\ obs.lastOp = "enabled"
    /\ enabled
    /\ obs.nOps >= 2
    /\ Len(load) = 0

\* ================================================================ useSync properties
\* no effect is due and no message is under way in either tab
UsQuiet ==
    /\ ~sm.changed /\ ~peer.changed
    /\ Len(sm.inbox) = 0 /\ Len(peer.inbox) = 0

\* C40: once both tabs are open with sync enabled and the first has been
\* edited, a point is reached after which no broadcast is due or under way
\* and both tabs hold the same data
C40_SyncSettles ==
    <>(sm.manager /\ peer.manager /\ peer.mounted /\ sm.edits > 0)
        => <>[](UsQuiet /\ sm.formData = peer.formData)

====
